---- MODULE Spec2Model ----
(***************************************************************************)
(* Model of the scrcpy-helper daemon of mobile-ui-testing:                 *)
(*   scripts/scrcpy_helper/frame_buffer.py  FrameBuffer                    *)
(*   scripts/scrcpy_helper/client.py        ScrcpyClient (mirror session)  *)
(*   scripts/scrcpy_helper/server.py        ScrcpyHelperServer commands    *)
(*                                                                         *)
(* SpecFB      : the FrameBuffer driven through its public add_frame by    *)
(*               several caller threads, with a wall clock.                *)
(* SpecSession : the ScrcpyClient driven by the server's command thread,   *)
(*               with the frame-polling threads it starts.                 *)
(* SpecDispatch: the same with frame callbacks registered and removed      *)
(*               while frames are dispatched.                              *)
(* SpecCallbacks: the same, recording which callbacks each dispatch calls. *)
(* SpecInput   : the same with the input primitives called between         *)
(*               commands.                                                 *)
(* SpecRouter  : the device manager's DeviceRouter (device_manager/        *)
(*               router.py) called by several asyncio tasks.               *)
(* SpecDevice  : the same router, its calls carrying a device argument.    *)
(* SpecCommand : handle_command's parsing of a command line, character by  *)
(*               character, against a registry of commands.                *)
(* SpecServer  : the command server's accept loop answering requests, one  *)
(*               connection after another.                                 *)
(* SpecWire    : the same sending binary results of many sizes.            *)
(* SpecDaemon  : daemons started on one socket path: the stale-file check, *)
(*               bind, the accept loop, quit and stop().                   *)
(* SpecStable  : the FrameBuffer filled with frames of several kinds and   *)
(*               asked is_stable.                                          *)
(* SpecDiffer  : frames_differ called on pairs of frames of several kinds. *)
(* SpecAround  : the FrameBuffer filled with frames of chosen timestamps   *)
(*               and asked get_around and get_recent.                      *)
(* SpecWait    : one call of wait_stable while frames arrive.              *)
(* SpecRecorder: the VideoRecorder (video.py) fed by the frame thread and  *)
(*               started and stopped by the command thread.                *)
(* SpecLocks   : either of the two, for the locks held meanwhile.          *)
(***************************************************************************)
EXTENDS Integers, Sequences, FiniteSets, TLC

(* ------------------------------ bounds -------------------------------- *)
\* FrameBuffer(max_frames=...) as configured in the model
MaxFrames == 3
\* the wall clock runs over 0..MaxTime
MaxTime == 3
\* add_frame calls made by the API callers of SpecFB
MaxAdds == 4
\* threads calling FrameBuffer.add_frame in SpecFB
NumCallers == 2
\* connect calls that get as far as creating a Session (SpecSession); each
\* one starts at most one frame-polling thread
MaxConnects == 2
\* the same in SpecInput and SpecDispatch, which study one session
MaxConnectsIO == 1
\* frames the device delivers in all
MaxPolls == 1
\* device serials known to adb
NumDevices == 2
\* frame callbacks registered in all
MaxCallbacks == 2
\* an input primitive is tried with its 1st..MaxThrowAt-th control call failing
MaxThrowAt == 2
\* swipe is tried with steps in 0..MaxSteps
MaxSteps == 2
\* daemons started on the same socket path
NumInstances == 2
\* connections accepted by the command server
MaxConns == 4
\* arguments given to a command
MaxArgs == 3
\* binary results of up to MaxBlobLen bytes, and one large one, are sent
MaxBlobLen == 4
\* the length of a large binary result (64 KB)
BigPayload == 65536
\* command lines of up to MaxLineLen characters are handled
MaxLineLen == 4
\* register_command calls made in all
MaxRegistered == 2
\* asyncio tasks running DeviceRouter operations at the same time
NumTasks == 2
\* router operations called in all
MaxCalls == 3
\* similarity thresholds are the multiples of 1/ThresholdDen from 0 up to
\* MaxThresholdNum/ThresholdDen (the range holds 1 and values above 1)
ThresholdDen == 2
MaxThresholdNum == 3
\* get_around is asked for up to MaxAround frames on either side
MaxAround == 2
\* wait_stable is given timeouts of 0 to MaxTimeoutHalves half check intervals
MaxTimeoutHalves == 3
\* frames the frame thread hands to VideoRecorder.add_frame
MaxDelivered == 2
\* calls of VideoRecorder.start and stop made by the command thread
MaxRecCalls == 3

(* ------------------------- program constants -------------------------- *)
\* FrameBuffer.__init__: max_seconds = 2.0
MaxSeconds == 2
\* ScrcpyClient.scroll: "self.swipe(..., steps=10, duration_ms=200)"
ScrollSteps == 10
\* FrameBuffer.frames_differ: "similarity = 1 - (diff / 64.0)", the bits of a phash
HashBits == 64
\* FrameBuffer.frames_differ: "scale = 8", every eighth pixel is compared
Scale == 8
\* FrameBuffer.frames_differ: "similarity = 1 - (diff / 255.0)"
PixelMax == 255
\* FrameBuffer.is_stable: "samples: int = 3"
DefaultSamples == 3
\* FrameBuffer.wait_stable: "timeout: float = 5.0", in milliseconds
DefaultTimeoutMs == 5000
\* FrameBuffer.wait_stable: "check_interval: float = 0.1", in milliseconds
CheckIntervalMs == 100

\* Python's None, for integer-valued fields
None == 0 - 1

VARIABLES
    \* ---- FrameBuffer ----
    frames,       \* FrameBuffer.frames: deque of (timestamp, frame), oldest first
    now,          \* time.time()
    \* ---- threads calling FrameBuffer.add_frame directly (SpecFB) ----
    apiPc,        \* caller -> "idle" | "stamped" (timestamp fixed, lock not yet taken)
    apiTs,        \* caller -> the timestamp of its pending add_frame
    nextId,       \* identity of the next frame appended (append sequence number)
    overflowed,   \* an append on a full deque has dropped the oldest entry
    lastAddedTs,  \* timestamp of the most recently added frame, None before any
    \* ---- ScrcpyClient ----
    session,      \* self.session: None or the number of the Session object
    deviceId,     \* self.device_id: None or a serial
    connected,    \* self.connected
    lastFrame,    \* self.last_frame: None or the session the frame came from
    frameCount,   \* self.frame_count
    width,        \* self._width  (0, or 1 for the device's width)
    height,       \* self._height (0, or 1 for the device's height)
    running,      \* self._running
    frameThread,  \* self._frame_thread: None or a thread
    lockHolder,   \* self.lock: None or the thread inside "with self.lock"
    callbacks,    \* self._on_frame_callbacks: list of callbacks
    nCallbacks,   \* callbacks registered so far (the next one is a new function)
    \* ---- myscrcpy / adbutils ----
    available,    \* MYSCRCPY_AVAILABLE
    nSessions,    \* Session objects created so far
    videoReady,   \* self.session.is_video_ready
    controlReady, \* self.session.is_control_ready
    \* ---- frame-polling threads (_frame_polling_loop) ----
    nThreads,     \* threads started so far
    thPc,         \* thread -> position in _frame_polling_loop / _on_frame
    thFrame,      \* thread -> the frame it holds (the session it came from)
    thIdx,        \* thread -> callbacks already visited by "for callback in ..."
    thRaised,     \* thread -> the first callback called with the frame in
                  \*           hand raised
    \* ---- the server's command thread ----
    mainPc,       \* position in connect() / disconnect(), "idle" between commands
    mainRet,      \* where the running disconnect() returns to
    lastOp,       \* the command being handled, or handled last
    response,     \* the text response of the last command
    reqDev,       \* connect's device_id argument
    reqConn,      \* self.connected when that connect was called
    reqFound,     \* "na" | "found" | "missing": reqDev among adb.device_list()
    waitOutcome,  \* "na" | "ready" | "timeout": how connect left its ready-wait
    lastIn,       \* outcome of the last input primitive called
    \* ---- device_manager: DeviceRouter and ScrcpyBackend ----
    rAvail,       \* DeviceRouter._scrcpy_available: "unknown" (None) |
                  \*   "available" (True) | "unavailable" (False)
    bClient,      \* ScrcpyBackend._client: 0 (None) or the number of the client
    bConnected,   \* ScrcpyBackend._connected
    bScreen,      \* ScrcpyBackend._screen_size is set
    bDevice,      \* the device the backend's client attaches to (ScrcpyClient.
                  \*   device_id of ScrcpyBackend._client), None without client
    aDefault,     \* AdbBackend._default_device, None while not set
    handshakes,   \* calls of ScrcpyClient.connect made by the backend so far
    flagWrites,   \* assignments to _scrcpy_available made so far
    unavailSeen,  \* an availability probe has returned unavailable
    nCalls,       \* router operations called so far
    tPc,          \* task -> position of its router call, "idle" between calls
    tOp,          \* task -> the router operation it runs
    tAfter,       \* task -> its call began after a probe returned unavailable
    tFast,        \* task -> how the fast backend served its call: "none" (not
                  \*   tried) | "performed" | "refused" | "raised"
    tFb,          \* task -> fallback attempts made for its call
    lastRet,      \* what the last finished router call gave its caller
    \* ---- ScrcpyHelperServer.handle_command, character by character ----
    commands,     \* self.commands: name -> handler (the name it was registered by)
    registered,   \* the names given to register_command so far, as given
    hcDone,       \* handle_command has been called
    hcLine,       \* its command_line argument
    hcOut,        \* what it did: its answer or the handler call it made
    \* ---- ScrcpyHelperServer: the accept loop and the command handlers ----
    srvPc,        \* "start" before start(), "accept" in its loop, "stopped"
    srvRunning,   \* self.running
    nConns,       \* connections accepted so far
    nRaised,      \* of which a handler raised on so many
    clientUp,     \* self.scrcpy.connected, as the handlers read it
    recording,    \* self.scrcpy.video_recorder.recording
    lastConn,     \* the last connection served: request, answer, what it did
    payload,      \* the bytes of the last binary handler result
    wire,         \* the bytes sendall put on the last connection for it
    \* ---- daemons started on one socket path ----
    sockFile,     \* who made the file at the path: 0 none, an instance, or
                  \* DeadProcess
    dPc,          \* each instance's place in start(), its loop and stop()
    dRunning,     \* each instance's self.running
    dSession,     \* each instance's self.scrcpy.connected
    dLast,        \* the answer each instance gave to its last client
    \* ---- FrameBuffer queries: is_stable, frames_differ, get_around ----
    hasHash,      \* IMAGEHASH_AVAILABLE: the imagehash import succeeded
    qOut,         \* the last query: its arguments, the buffer it saw, its result
    \* ---- FrameBuffer.wait_stable, one call of it ----
    wait,         \* where the call is, its arguments, clock readings and result
    \* ---- VideoRecorder ----
    vrec,         \* the recorder's fields and the threads inside its methods
    \* ---- the dispatch of a frame to the callbacks, as it went so far ----
    thSeen        \* thread -> the callbacks called with the frame in hand, and
                  \*   those registered since the dispatch began (a history,
                  \*   kept under SpecCallbacks)

fbVars == <<frames, now, apiPc, apiTs, nextId, overflowed, lastAddedTs>>
apiVars == <<apiPc, apiTs, nextId, overflowed, lastAddedTs>>
clientVars == <<session, deviceId, connected, lastFrame, frameCount, width,
                height, running, frameThread, lockHolder, callbacks,
                nCallbacks>>
libVars == <<available, nSessions, videoReady, controlReady>>
thVars == <<nThreads, thPc, thFrame, thIdx, thRaised>>
mainVars == <<mainPc, mainRet, lastOp, response, reqDev, reqConn, reqFound,
              waitOutcome, lastIn>>
sessionVars == <<clientVars, libVars, thVars, mainVars>>
backendVars == <<bClient, bConnected, bScreen, handshakes>>
deviceVars == <<bDevice, aDefault>>
routerVars == <<rAvail, flagWrites, unavailSeen, nCalls, lastRet>>
taskVars == <<tPc, tOp, tAfter, tFast, tFb>>
\* the device manager, a process of its own beside the helper daemon
frontVars == <<backendVars, deviceVars, routerVars, taskVars>>

\* handle_command's parsing of one command line
parseVars == <<commands, registered, hcDone, hcLine, hcOut>>
\* the helper daemon's command server
\* the accept loop and the connection it is serving
srvVars == <<srvPc, srvRunning, nConns, nRaised, clientUp, recording, lastConn,
            payload, wire>>
\* the instances of the daemon and the socket file they share
daemonVars == <<sockFile, dPc, dRunning, dSession, dLast>>
queryVars == <<hasHash, qOut, wait, vrec, thSeen>>
serverVars == <<parseVars, srvVars, daemonVars, queryVars>>

vars == <<fbVars, sessionVars, frontVars, serverVars>>

Callers == 1..NumCallers
Times == 0..MaxTime
Devices == 1..NumDevices
Threads == 1..(IF MaxConnects > MaxConnectsIO THEN MaxConnects ELSE MaxConnectsIO)
CallbackIds == 1..MaxCallbacks
Tasks == 1..NumTasks

\* the operations of DeviceRouter that choose a backend
RouterOps == {"screenshot", "tap", "swipe", "type_text", "press_key",
              "get_screen_size"}
\* a router call: the operation and, for press_key, whether the key name is
\* one of ScrcpyBackend.press_key's key_map
RouterCalls ==
    {[name |-> n, key |-> "na", dev |-> None] : n \in RouterOps \ {"press_key"}}
    \cup {[name |-> "press_key", key |-> c, dev |-> None] :
              c \in {"known", "unknown"}}
\* router calls with their device argument: a device id, or None when the
\* tool call has no "device"
DeviceCalls ==
    {[name |-> n, key |-> "na", dev |-> d] :
        n \in {"screenshot", "tap"}, d \in Devices \cup {None}}
NoCall == [name |-> "none", key |-> "na", dev |-> None]

(* ---------------------------- FrameBuffer ------------------------------ *)

\* a deque that ignores maxlen (list.append)
DequeAppendUnbounded(q, x) == Append(q, x)

\* collections.deque(maxlen=max_frames).append: a full deque drops its oldest
DequeAppend(q, x) ==
    IF MaxFrames = 0 THEN q
    ELSE IF Len(q) >= MaxFrames THEN Append(Tail(q), x)
    ELSE Append(q, x)

\* FrameBuffer._cleanup_old: cutoff = time.time() - max_seconds; pop from the
\* left while the leftmost timestamp is below the cutoff
RECURSIVE CleanupOld(_, _)
CleanupOld(q, clock) ==
    IF q # <<>> /\ q[1].ts < clock - MaxSeconds
    THEN CleanupOld(Tail(q), clock)
    ELSE q

\* the body of add_frame under self.lock: append, then _cleanup_old
AddFrameLocked(q, ts, frame, clock) ==
    CleanupOld(DequeAppend(q, [ts |-> ts, frame |-> frame]), clock)

\* add_frame, first half: "if timestamp is None: timestamp = time.time()".
\* tsArg is the caller's argument (None or a value of its own choosing).
AddFrameStamp(t, tsArg) ==
    /\ apiPc[t] = "idle"
    /\ nextId + Cardinality({u \in Callers : apiPc[u] = "stamped"}) <= MaxAdds
    /\ apiTs' = [apiTs EXCEPT ![t] = IF tsArg = None THEN now ELSE tsArg]
    /\ apiPc' = [apiPc EXCEPT ![t] = "stamped"]
    /\ UNCHANGED <<frames, now, nextId, overflowed, lastAddedTs>>
    /\ UNCHANGED sessionVars
    /\ UNCHANGED frontVars
    /\ UNCHANGED serverVars

\* add_frame, second half: "with self.lock: append; _cleanup_old()"
AddFrameStore(t) ==
    /\ apiPc[t] = "stamped"
    /\ frames' = AddFrameLocked(frames, apiTs[t], nextId, now)
    /\ overflowed' = (overflowed \/ (MaxFrames > 0 /\ Len(frames) >= MaxFrames))
    /\ lastAddedTs' = apiTs[t]
    /\ nextId' = nextId + 1
    /\ apiPc' = [apiPc EXCEPT ![t] = "idle"]
    /\ apiTs' = [apiTs EXCEPT ![t] = None]
    /\ UNCHANGED now
    /\ UNCHANGED sessionVars
    /\ UNCHANGED frontVars
    /\ UNCHANGED serverVars

\* the wall clock advances
Tick ==
    /\ now < MaxTime
    /\ now' = now + 1
    /\ UNCHANGED <<frames, apiPc, apiTs, nextId, overflowed, lastAddedTs>>
    /\ UNCHANGED sessionVars
    /\ UNCHANGED frontVars
    /\ UNCHANGED serverVars

\* FrameBuffer.__init__
InitBuffer ==
    /\ frames = <<>>
    /\ now = 0
    /\ apiPc = [t \in Callers |-> "idle"]
    /\ apiTs = [t \in Callers |-> None]
    /\ nextId = 1
    /\ overflowed = FALSE
    /\ lastAddedTs = None

NoInput == [op |-> "none", ret |-> FALSE, raised |-> FALSE, sent |-> 0,
            control |-> FALSE, threw |-> FALSE,
            connected0 |-> FALSE, session0 |-> None]

\* ScrcpyClient.__init__, before any command
InitClient ==
    /\ session = None
    /\ deviceId = None
    /\ connected = FALSE
    /\ lastFrame = None
    /\ frameCount = 0
    /\ width = 0
    /\ height = 0
    /\ running = FALSE
    /\ frameThread = None
    /\ lockHolder = None
    /\ callbacks = <<>>
    /\ nCallbacks = 0
    /\ nSessions = 0
    /\ videoReady = FALSE
    /\ controlReady = FALSE
    /\ nThreads = 0
    /\ thPc = [t \in Threads |-> "unborn"]
    /\ thFrame = [t \in Threads |-> None]
    /\ thIdx = [t \in Threads |-> 0]
    /\ thRaised = [t \in Threads |-> FALSE]
    /\ mainPc = "idle"
    /\ mainRet = "none"
    /\ lastOp = "none"
    /\ response = ""
    /\ reqDev = None
    /\ reqConn = FALSE
    /\ reqFound = "na"
    /\ waitOutcome = "na"
    /\ lastIn = NoInput

\* the "none yet" value of lastRet
NoRet == [tag |-> "none", by |-> "none", exc |-> "none", fast |-> "none",
          req |-> None, dev |-> None]

\* DeviceRouter.__init__ and ScrcpyBackend.__init__, before any tool call
InitFront ==
    /\ rAvail = "unknown"
    /\ bClient = 0
    /\ bConnected = FALSE
    /\ bScreen = FALSE
    /\ bDevice = None
    /\ aDefault = None
    /\ handshakes = 0
    /\ flagWrites = 0
    /\ unavailSeen = FALSE
    /\ nCalls = 0
    /\ tPc = [k \in Tasks |-> "idle"]
    /\ tOp = [k \in Tasks |-> NoCall]
    /\ tAfter = [k \in Tasks |-> FALSE]
    /\ tFast = [k \in Tasks |-> "none"]
    /\ tFb = [k \in Tasks |-> 0]
    /\ lastRet = NoRet

\* the value of hcOut before any command line is handled
NoOut == [kind |-> "none", cmd |-> <<>>, handler |-> <<>>, args |-> <<>>,
          calls |-> 0]

\* a text, by what it begins with and what follows
Txt(lead, body) == [lead |-> lead, body |-> body]

Instances == 1..NumInstances
\* the maker of a socket file whose process has died
DeadProcess == NumInstances + 1

\* the value of lastConn before any connection is served
NoConn == [cmd |-> "", sub |-> "", bad |-> FALSE, up |-> FALSE,
           changed |-> FALSE, raised |-> FALSE, kind |-> "none",
           text |-> Txt("", ""), effect |-> "none", peerOpen |-> FALSE,
           sent |-> FALSE, closed |-> FALSE]

\* the value of qOut before any query is made
NoQuery == [op |-> "none"]

\* no dispatch under way, or one whose history is not kept
NoSeen == [on |-> FALSE, got |-> <<>>, kept |-> {}]

\* wait_stable not called yet
NoWait == [pc |-> "idle", lock |-> "free", start |-> 0, timeout |-> 0,
           interval |-> 0, wake |-> 0, recent |-> <<>>, ret |-> FALSE,
           sleeps |-> 0, polls |-> 0, polledTrue |-> FALSE,
           stableAtCall |-> FALSE, added |-> FALSE, end |-> 0]

\* VideoRecorder.__init__, no thread inside its methods
NoRec == [recording |-> FALSE, frames |-> <<>>, lock |-> "free",
          fPc |-> "idle", fTag |-> 0, cPc |-> "idle", starts |-> 0,
          delivered |-> 0, calls |-> 0, local |-> <<>>, stopped |-> 0,
          ret |-> "none yet"]

\* the module as imported (with or without imagehash), no query made yet
InitQueries(has) ==
    /\ hasHash = has
    /\ qOut = NoQuery
    /\ wait = NoWait
    /\ vrec = NoRec
    /\ thSeen = [t \in Threads |-> NoSeen]

\* ScrcpyHelperServer.__init__, before any command is registered
InitServer ==
    /\ commands = <<>>
    /\ registered = {}
    /\ hcDone = FALSE
    /\ hcLine = <<>>
    /\ hcOut = NoOut
    /\ srvPc = "start"
    /\ srvRunning = FALSE
    /\ nConns = 0
    /\ nRaised = 0
    /\ clientUp = FALSE
    /\ recording = FALSE
    /\ lastConn = NoConn
    /\ payload = <<>>
    /\ wire = <<>>
    /\ sockFile = 0
    /\ dPc = [i \in Instances |-> "init"]
    /\ dRunning = [i \in Instances |-> FALSE]
    /\ dSession = [i \in Instances |-> FALSE]
    /\ dLast = [i \in Instances |-> Txt("", "")]

InitFB ==
    /\ InitBuffer
    /\ InitClient
    /\ InitFront
    /\ InitServer
    /\ InitQueries(TRUE)
    /\ available = TRUE

NextFB ==
    \/ \E t \in Callers, tsArg \in Times \cup {None} : AddFrameStamp(t, tsArg)
    \/ \E t \in Callers : AddFrameStore(t)
    \/ Tick

SpecFB == InitFB /\ [][NextFB]_vars


(* ---------------------------- ScrcpyClient ----------------------------- *)

ErrConnect == "ERROR: connection failed"

\* what adb.device_list() may return: the serials in some order
DeviceLists ==
    {<<>>} \cup {<<d>> : d \in Devices}
           \cup {x \in Devices \X Devices : x[1] # x[2]}

\* connect: the device chosen from the list ("devices[0]" without an id, the
\* one whose serial matches with one), None when there is none
SelectDevice(devs, dev) ==
    IF devs = <<>> THEN None
    ELSE IF dev = None THEN devs[1]
    ELSE IF \E i \in 1..Len(devs) : devs[i] = dev THEN dev
    ELSE None

\* a connect() that keeps the session it finds
ConnectKeepsOldSession(conn) == FALSE

\* connect: "if self.connected: self.disconnect()"
ConnectDisconnectsFirst(conn) == conn

\* connect, after the ready-wait: "if not self.session.is_video_ready" is the
\* one test made before the frame thread is started
ReadyCheckPasses(video, control) == video

\* a call of self.disconnect() that returns to ret
CallDisconnect(ret) ==
    /\ mainPc' = "d_running"
    /\ mainRet' = ret

\* _cmd_connect -> ScrcpyClient.connect, up to "if self.connected: disconnect()"
CmdConnect(dev) ==
    /\ mainPc = "idle"
    /\ lastOp' = "connect"
    /\ reqDev' = dev
    /\ reqConn' = connected
    /\ reqFound' = "na"
    /\ waitOutcome' = "na"
    /\ lastIn' = NoInput
    /\ IF ~available
       THEN /\ response' = ErrConnect
            /\ UNCHANGED <<mainPc, mainRet>>
       ELSE /\ response' = ""
            /\ IF ConnectDisconnectsFirst(connected)
               THEN CallDisconnect("c_enum")
               ELSE mainPc' = "c_enum" /\ mainRet' = mainRet
    /\ UNCHANGED <<fbVars, clientVars, libVars, thVars>>
    /\ UNCHANGED frontVars
    /\ UNCHANGED serverVars

\* connect: adb.device_list() raises; "except Exception: disconnect; return False"
ConnectEnumerateRaises ==
    /\ mainPc = "c_enum"
    /\ CallDisconnect("fail")
    /\ UNCHANGED <<fbVars, clientVars, libVars, thVars, lastOp, response,
                   reqDev, reqConn, reqFound, waitOutcome, lastIn>>
    /\ UNCHANGED frontVars
    /\ UNCHANGED serverVars

\* connect: no device, or none with the serial asked for: "return False"
ConnectDeviceMissing ==
    /\ mainPc = "c_enum"
    /\ \E devs \in DeviceLists :
         /\ SelectDevice(devs, reqDev) = None
         /\ reqFound' = IF reqDev = None THEN "na" ELSE "missing"
    /\ response' = ErrConnect
    /\ mainPc' = "idle"
    /\ UNCHANGED <<fbVars, clientVars, libVars, thVars, mainRet, lastOp,
                   reqDev, reqConn, waitOutcome, lastIn>>
    /\ UNCHANGED frontVars
    /\ UNCHANGED serverVars

\* connect: the device is found, "self.device_id = device.serial", and
\* Session(...) raises
ConnectSessionRaises ==
    /\ mainPc = "c_enum"
    /\ \E devs \in DeviceLists :
         /\ SelectDevice(devs, reqDev) # None
         /\ deviceId' = SelectDevice(devs, reqDev)
         /\ reqFound' = IF reqDev = None THEN "na" ELSE "found"
    /\ CallDisconnect("fail")
    /\ UNCHANGED <<fbVars, session, connected, lastFrame, frameCount, width,
                   height, running, frameThread, lockHolder, callbacks, nCallbacks,
                   libVars, thVars, lastOp, response, reqDev, reqConn, waitOutcome,
                   lastIn>>
    /\ UNCHANGED frontVars
    /\ UNCHANGED serverVars

\* connect: the device is found and the Session is created
ConnectSessionCreated ==
    /\ mainPc = "c_enum"
    /\ \E devs \in DeviceLists :
         /\ SelectDevice(devs, reqDev) # None
         /\ deviceId' = SelectDevice(devs, reqDev)
         /\ reqFound' = IF reqDev = None THEN "na" ELSE "found"
    /\ nSessions' = nSessions + 1
    /\ session' = nSessions + 1
    /\ videoReady' = FALSE
    /\ controlReady' = FALSE
    /\ mainPc' = "c_wait"
    /\ UNCHANGED <<fbVars, connected, lastFrame, frameCount, width, height,
                   running, frameThread, lockHolder, callbacks, nCallbacks, available,
                   thVars, mainRet, lastOp, response, reqDev, reqConn, waitOutcome,
                   lastIn>>
    /\ UNCHANGED frontVars
    /\ UNCHANGED serverVars

\* the Session's video channel becomes ready (connect reads the flag in its
\* ready-wait and in the check after it, and nowhere else)
SessionVideoReady ==
    /\ mainPc \in {"c_wait", "c_check"}
    /\ session # None
    /\ ~videoReady
    /\ videoReady' = TRUE
    /\ UNCHANGED <<fbVars, clientVars, available, nSessions, controlReady,
                   thVars, mainVars>>
    /\ UNCHANGED frontVars
    /\ UNCHANGED serverVars

\* the Session's control channel becomes ready
SessionControlReady ==
    /\ mainPc \in {"c_wait", "c_check"}
    /\ session # None
    /\ ~controlReady
    /\ controlReady' = TRUE
    /\ UNCHANGED <<fbVars, clientVars, available, nSessions, videoReady,
                   thVars, mainVars>>
    /\ UNCHANGED frontVars
    /\ UNCHANGED serverVars

\* connect: the ready-wait ends by "break": video and control are ready
ConnectWaitReady ==
    /\ mainPc = "c_wait"
    /\ videoReady /\ controlReady
    /\ waitOutcome' = "ready"
    /\ mainPc' = "c_check"
    /\ UNCHANGED <<fbVars, clientVars, libVars, thVars, mainRet, lastOp,
                   response, reqDev, reqConn, reqFound, lastIn>>
    /\ UNCHANGED frontVars
    /\ UNCHANGED serverVars

\* connect: the ready-wait ends because its 10 s are over
ConnectWaitTimeout ==
    /\ mainPc = "c_wait"
    /\ ~(videoReady /\ controlReady)
    /\ waitOutcome' = "timeout"
    /\ mainPc' = "c_check"
    /\ UNCHANGED <<fbVars, clientVars, libVars, thVars, mainRet, lastOp,
                   response, reqDev, reqConn, reqFound, lastIn>>
    /\ UNCHANGED frontVars
    /\ UNCHANGED serverVars

\* connect: "if not self.session.is_video_ready: disconnect; return False"
ConnectVideoNotReady ==
    /\ mainPc = "c_check"
    /\ ~ReadyCheckPasses(videoReady, controlReady)
    /\ CallDisconnect("fail")
    /\ UNCHANGED <<fbVars, clientVars, libVars, thVars, lastOp, response,
                   reqDev, reqConn, reqFound, waitOutcome, lastIn>>
    /\ UNCHANGED frontVars
    /\ UNCHANGED serverVars

\* connect: "self._running = True" and the frame-polling thread is started
ConnectStartThread ==
    /\ mainPc = "c_check"
    /\ ReadyCheckPasses(videoReady, controlReady)
    /\ running' = TRUE
    /\ nThreads' = nThreads + 1
    /\ frameThread' = nThreads + 1
    /\ thPc' = [thPc EXCEPT ![nThreads + 1] = "loop"]
    /\ mainPc' = "c_first"
    /\ UNCHANGED <<fbVars, session, deviceId, connected, lastFrame,
                   frameCount, width, height, lockHolder, callbacks, nCallbacks, libVars,
                   thFrame, thIdx, thRaised, mainRet, lastOp, response,
                   reqDev, reqConn, reqFound, waitOutcome, lastIn>>
    /\ UNCHANGED frontVars
    /\ UNCHANGED serverVars

\* connect: "if self.last_frame is not None: self.connected = True; return True"
ConnectFirstFrame ==
    /\ mainPc = "c_first"
    /\ lastFrame # None
    /\ connected' = TRUE
    /\ response' = "OK"
    /\ mainPc' = "idle"
    /\ UNCHANGED <<fbVars, session, deviceId, lastFrame, frameCount, width,
                   height, running, frameThread, lockHolder, callbacks, nCallbacks,
                   libVars, thVars, mainRet, lastOp, reqDev, reqConn, reqFound,
                   waitOutcome, lastIn>>
    /\ UNCHANGED frontVars
    /\ UNCHANGED serverVars

\* connect: no frame within 5 s: "disconnect; return False"
ConnectFirstFrameTimeout ==
    /\ mainPc = "c_first"
    /\ lastFrame = None
    /\ CallDisconnect("fail")
    /\ UNCHANGED <<fbVars, clientVars, libVars, thVars, lastOp, response,
                   reqDev, reqConn, reqFound, waitOutcome, lastIn>>
    /\ UNCHANGED frontVars
    /\ UNCHANGED serverVars

\* _cmd_disconnect -> ScrcpyClient.disconnect
CmdDisconnect ==
    /\ mainPc = "idle"
    /\ lastOp' = "disconnect"
    /\ response' = ""
    /\ reqDev' = None
    /\ reqConn' = FALSE
    /\ reqFound' = "na"
    /\ waitOutcome' = "na"
    /\ lastIn' = NoInput
    /\ CallDisconnect("ok")
    /\ UNCHANGED <<fbVars, clientVars, libVars, thVars>>
    /\ UNCHANGED frontVars
    /\ UNCHANGED serverVars

\* disconnect: "self._running = False"
DisconnectStopFlag ==
    /\ mainPc = "d_running"
    /\ running' = FALSE
    /\ mainPc' = "d_join"
    /\ UNCHANGED <<fbVars, session, deviceId, connected, lastFrame,
                   frameCount, width, height, frameThread, lockHolder,
                   callbacks, nCallbacks, libVars, thVars, mainRet, lastOp, response,
                   reqDev, reqConn, reqFound, waitOutcome, lastIn>>
    /\ UNCHANGED frontVars
    /\ UNCHANGED serverVars

\* disconnect: there is no thread, or join() returns because it has ended
DisconnectJoin ==
    /\ mainPc = "d_join"
    /\ IF frameThread = None THEN TRUE ELSE thPc[frameThread] = "done"
    /\ frameThread' = None
    /\ mainPc' = "d_session"
    /\ UNCHANGED <<fbVars, session, deviceId, connected, lastFrame,
                   frameCount, width, height, running, lockHolder, callbacks, nCallbacks,
                   libVars, thVars, mainRet, lastOp, response, reqDev, reqConn,
                   reqFound, waitOutcome, lastIn>>
    /\ UNCHANGED frontVars
    /\ UNCHANGED serverVars

\* disconnect: join(timeout=2) returns with the thread still alive
DisconnectJoinTimeout ==
    /\ mainPc = "d_join"
    /\ frameThread # None
    /\ thPc[frameThread] # "done"
    /\ frameThread' = None
    /\ mainPc' = "d_session"
    /\ UNCHANGED <<fbVars, session, deviceId, connected, lastFrame,
                   frameCount, width, height, running, lockHolder, callbacks, nCallbacks,
                   libVars, thVars, mainRet, lastOp, response, reqDev, reqConn,
                   reqFound, waitOutcome, lastIn>>
    /\ UNCHANGED frontVars
    /\ UNCHANGED serverVars

\* disconnect: "session.disconnect(); self.session = None; self.connected = False"
DisconnectSession ==
    /\ mainPc = "d_session"
    /\ session' = None
    /\ videoReady' = FALSE
    /\ controlReady' = FALSE
    /\ connected' = FALSE
    /\ mainPc' = "d_frame"
    /\ UNCHANGED <<fbVars, deviceId, lastFrame, frameCount, width, height,
                   running, frameThread, lockHolder, callbacks, nCallbacks, available,
                   nSessions, thVars, mainRet, lastOp, response, reqDev, reqConn,
                   reqFound, waitOutcome, lastIn>>
    /\ UNCHANGED frontVars
    /\ UNCHANGED serverVars

\* disconnect: "self.last_frame = None; self.device_id = None"
DisconnectClearFrame ==
    /\ mainPc = "d_frame"
    /\ lastFrame' = None
    /\ deviceId' = None
    /\ mainPc' = "d_width"
    /\ UNCHANGED <<fbVars, session, connected, frameCount, width, height,
                   running, frameThread, lockHolder, callbacks, nCallbacks, libVars,
                   thVars, mainRet, lastOp, response, reqDev, reqConn, reqFound,
                   waitOutcome, lastIn>>
    /\ UNCHANGED frontVars
    /\ UNCHANGED serverVars

\* disconnect: "self._width = 0"
DisconnectClearWidth ==
    /\ mainPc = "d_width"
    /\ width' = 0
    /\ mainPc' = "d_height"
    /\ UNCHANGED <<fbVars, session, deviceId, connected, lastFrame,
                   frameCount, height, running, frameThread, lockHolder,
                   callbacks, nCallbacks, libVars, thVars, mainRet, lastOp, response,
                   reqDev, reqConn, reqFound, waitOutcome, lastIn>>
    /\ UNCHANGED frontVars
    /\ UNCHANGED serverVars

\* disconnect: "self._height = 0", and the return to the caller: connect goes
\* on or returns False, _cmd_disconnect answers OK
DisconnectClearHeight ==
    /\ mainPc = "d_height"
    /\ height' = 0
    /\ mainRet' = "none"
    /\ mainPc' = IF mainRet = "c_enum" THEN "c_enum" ELSE "idle"
    /\ response' = IF mainRet = "fail" THEN ErrConnect
                   ELSE IF mainRet = "ok" THEN "OK" ELSE response
    /\ UNCHANGED <<fbVars, session, deviceId, connected, lastFrame,
                   frameCount, width, running, frameThread, lockHolder,
                   callbacks, nCallbacks, libVars, thVars, lastOp, reqDev, reqConn, reqFound,
                   waitOutcome, lastIn>>
    /\ UNCHANGED frontVars
    /\ UNCHANGED serverVars

\* ScrcpyClient.status()
Status ==
    [connected |-> connected,
     device |-> deviceId,
     resolution |-> IF width > 0 /\ height > 0 THEN <<width, height>> ELSE <<>>,
     frame_count |-> frameCount,
     scrcpy_available |-> available]

(* ------------------------ frame-polling threads ------------------------- *)

\* frames handed to a thread and not yet counted in frame_count
InHand == Cardinality({t \in Threads : thPc[t] = "f_last"})

\* _frame_polling_loop: "while self._running and self.session is not None"
LoopCheck(t) ==
    /\ thPc[t] = "loop"
    /\ thPc' = [thPc EXCEPT ![t] =
                  IF running /\ session # None THEN "poll" ELSE "done"]
    /\ UNCHANGED <<fbVars, clientVars, libVars, nThreads, thFrame, thIdx,
                   thRaised, mainVars>>
    /\ UNCHANGED frontVars
    /\ UNCHANGED serverVars

\* _frame_polling_loop: no frame this round (va or the frame is None, or the
\* access raised and was logged); sleep and loop
PollNoFrame(t) ==
    /\ thPc[t] = "poll"
    /\ thPc' = [thPc EXCEPT ![t] = "loop"]
    /\ UNCHANGED <<fbVars, clientVars, libVars, nThreads, thFrame, thIdx,
                   thRaised, mainVars>>
    /\ UNCHANGED frontVars
    /\ UNCHANGED serverVars

\* _frame_polling_loop: "frame = self.session.va.get_frame()" gives a frame
PollFrame(t) ==
    /\ thPc[t] = "poll"
    /\ session # None
    /\ frameCount + InHand < MaxPolls
    /\ thFrame' = [thFrame EXCEPT ![t] = session]
    /\ thPc' = [thPc EXCEPT ![t] = "f_last"]
    /\ UNCHANGED <<fbVars, clientVars, libVars, nThreads, thIdx, thRaised,
                   mainVars>>
    /\ UNCHANGED frontVars
    /\ UNCHANGED serverVars

\* _on_frame: "with self.lock: self.last_frame = frame; self.frame_count += 1"
OnFrameStore(t) ==
    /\ thPc[t] = "f_last"
    /\ lockHolder = None
    /\ lockHolder' = t
    /\ lastFrame' = thFrame[t]
    /\ frameCount' = frameCount + 1
    /\ thPc' = [thPc EXCEPT ![t] = "f_dims"]
    /\ UNCHANGED <<fbVars, session, deviceId, connected, width, height,
                   running, frameThread, callbacks, nCallbacks, libVars, nThreads,
                   thFrame, thIdx, thRaised, mainVars>>
    /\ UNCHANGED frontVars
    /\ UNCHANGED serverVars

\* _on_frame: "if self._height == 0: self._height, ... = frame.shape[:2]"
OnFrameHeight(t) ==
    /\ thPc[t] = "f_dims"
    /\ IF height = 0
       THEN /\ height' = 1
            /\ thPc' = [thPc EXCEPT ![t] = "f_width"]
            /\ UNCHANGED lockHolder
       ELSE /\ UNCHANGED height
            /\ thPc' = [thPc EXCEPT ![t] = "f_buf"]
            /\ lockHolder' = None
    /\ UNCHANGED <<fbVars, session, deviceId, connected, lastFrame,
                   frameCount, width, running, frameThread, callbacks, nCallbacks,
                   libVars, nThreads, thFrame, thIdx, thRaised, mainVars>>
    /\ UNCHANGED frontVars
    /\ UNCHANGED serverVars

\* _on_frame: "..., self._width = frame.shape[:2]", end of the locked block
OnFrameWidth(t) ==
    /\ thPc[t] = "f_width"
    /\ width' = 1
    /\ lockHolder' = None
    /\ thPc' = [thPc EXCEPT ![t] = "f_buf"]
    /\ UNCHANGED <<fbVars, session, deviceId, connected, lastFrame,
                   frameCount, height, running, frameThread, callbacks, nCallbacks,
                   libVars, nThreads, thFrame, thIdx, thRaised, mainVars>>
    /\ UNCHANGED frontVars
    /\ UNCHANGED serverVars

\* _on_frame: "self.frame_buffer.add_frame(frame, timestamp)"; track tells
\* whether the history of the dispatch that follows is kept
OnFrameBuffer(t, track) ==
    /\ thPc[t] = "f_buf"
    /\ frames' = AddFrameLocked(frames, now, thFrame[t], now)
    /\ thPc' = [thPc EXCEPT ![t] = "f_cb"]
    /\ thIdx' = [thIdx EXCEPT ![t] = 0]
    /\ thRaised' = [thRaised EXCEPT ![t] = FALSE]
    /\ UNCHANGED <<now, apiVars, clientVars, libVars, nThreads, thFrame,
                   mainVars>>
    /\ UNCHANGED frontVars
    /\ thSeen' = [thSeen EXCEPT ![t] =
                     IF track
                     THEN [on |-> TRUE, got |-> <<>>,
                           kept |-> {callbacks[i] : i \in 1..Len(callbacks)}]
                     ELSE NoSeen]
    /\ UNCHANGED <<parseVars, srvVars, daemonVars, hasHash, qOut, wait, vrec>>

\* a _on_frame whose first failing callback ends the dispatch of the frame
CallbackOutcomeAbort(t, raises) ==
    IF raises
    THEN /\ thPc' = [thPc EXCEPT ![t] = "loop"]
         /\ thFrame' = [thFrame EXCEPT ![t] = None]
         /\ thIdx' = [thIdx EXCEPT ![t] = 0]
         /\ thRaised' = [thRaised EXCEPT ![t] = FALSE]
    ELSE /\ thIdx' = [thIdx EXCEPT ![t] = @ + 1]
         /\ UNCHANGED <<thPc, thFrame, thRaised>>

\* _on_frame: "try: callback(frame, timestamp) / except Exception: log", then
\* the for loop goes on to the next position of the list
CallbackOutcome(t, raises) ==
    /\ thIdx' = [thIdx EXCEPT ![t] = @ + 1]
    /\ thRaised' = [thRaised EXCEPT ![t] = @ \/ (raises /\ thIdx[t] = 0)]
    /\ UNCHANGED <<thPc, thFrame>>

\* _on_frame: one round of "for callback in self._on_frame_callbacks"
DispatchCallback(t) ==
    /\ thPc[t] = "f_cb"
    /\ thIdx[t] < Len(callbacks)
    /\ \E raises \in BOOLEAN : CallbackOutcome(t, raises)
    /\ UNCHANGED <<fbVars, clientVars, libVars, nThreads, mainVars>>
    /\ UNCHANGED frontVars
    /\ thSeen' = [thSeen EXCEPT ![t].got =
                     IF thSeen[t].on THEN Append(@, callbacks[thIdx[t] + 1])
                     ELSE @]
    /\ UNCHANGED <<parseVars, srvVars, daemonVars, hasHash, qOut, wait, vrec>>

\* _on_frame: the for loop is over; back in the polling loop, sleep
DispatchDone(t) ==
    /\ thPc[t] = "f_cb"
    /\ thIdx[t] >= Len(callbacks)
    /\ thPc' = [thPc EXCEPT ![t] = "loop"]
    /\ thFrame' = [thFrame EXCEPT ![t] = None]
    /\ thIdx' = [thIdx EXCEPT ![t] = 0]
    /\ thRaised' = [thRaised EXCEPT ![t] = FALSE]
    /\ UNCHANGED <<fbVars, clientVars, libVars, nThreads, mainVars>>
    /\ UNCHANGED frontVars
    /\ thSeen' = [thSeen EXCEPT ![t] = NoSeen]
    /\ UNCHANGED <<parseVars, srvVars, daemonVars, hasHash, qOut, wait, vrec>>

\* add_frame_callback, of a function not registered before
AddFrameCallback ==
    /\ nCallbacks < MaxCallbacks
    /\ nCallbacks' = nCallbacks + 1
    /\ callbacks' = Append(callbacks, nCallbacks + 1)
    /\ UNCHANGED <<fbVars, session, deviceId, connected, lastFrame,
                   frameCount, width, height, running, frameThread,
                   lockHolder, libVars, thVars, mainVars>>
    /\ UNCHANGED frontVars
    /\ UNCHANGED thSeen
    /\ UNCHANGED <<parseVars, srvVars, daemonVars, hasHash, qOut, wait, vrec>>

\* list.remove: the first occurrence goes
RECURSIVE ListRemove(_, _)
ListRemove(l, c) ==
    IF l = <<>> THEN <<>>
    ELSE IF l[1] = c THEN Tail(l)
    ELSE <<l[1]>> \o ListRemove(Tail(l), c)

\* remove_frame_callback
RemoveFrameCallback(c) ==
    /\ \E i \in 1..Len(callbacks) : callbacks[i] = c
    /\ callbacks' = ListRemove(callbacks, c)
    /\ UNCHANGED nCallbacks
    /\ UNCHANGED <<fbVars, session, deviceId, connected, lastFrame,
                   frameCount, width, height, running, frameThread,
                   lockHolder, libVars, thVars, mainVars>>
    /\ UNCHANGED frontVars
    /\ thSeen' = [t \in Threads |-> [thSeen[t] EXCEPT !.kept = @ \ {c}]]
    /\ UNCHANGED <<parseVars, srvVars, daemonVars, hasHash, qOut, wait, vrec>>

InitSession ==
    /\ InitBuffer
    /\ InitClient
    /\ InitFront
    /\ InitServer
    /\ InitQueries(TRUE)
    /\ available \in BOOLEAN

\* every step but the start of a connect command
NextCore ==
    \/ ConnectEnumerateRaises
    \/ ConnectDeviceMissing
    \/ ConnectSessionRaises
    \/ ConnectSessionCreated
    \/ SessionVideoReady
    \/ SessionControlReady
    \/ ConnectWaitReady
    \/ ConnectWaitTimeout
    \/ ConnectVideoNotReady
    \/ ConnectStartThread
    \/ ConnectFirstFrame
    \/ ConnectFirstFrameTimeout
    \/ CmdDisconnect
    \/ DisconnectStopFlag
    \/ DisconnectJoin
    \/ DisconnectJoinTimeout
    \/ DisconnectSession
    \/ DisconnectClearFrame
    \/ DisconnectClearWidth
    \/ DisconnectClearHeight
    \/ \E t \in Threads : LoopCheck(t)
    \/ \E t \in Threads : PollNoFrame(t)
    \/ \E t \in Threads : PollFrame(t)
    \/ \E t \in Threads : OnFrameStore(t)
    \/ \E t \in Threads : OnFrameHeight(t)
    \/ \E t \in Threads : OnFrameWidth(t)
    \/ \E t \in Threads : OnFrameBuffer(t, FALSE)
    \/ \E t \in Threads : DispatchDone(t)

NextSession ==
    \/ \E dev \in Devices \cup {None} : nSessions < MaxConnects /\ CmdConnect(dev)
    \/ NextCore

\* the daemon as it runs: nothing in it registers a frame callback
SpecSession == InitSession /\ [][NextSession]_vars

\* the client with users of add_frame_callback / remove_frame_callback, over
\* sessions that come up normally on the default device: the failing paths of
\* connect start no thread and dispatch nothing
DispatchSteps ==
    \/ nSessions < MaxConnectsIO /\ CmdConnect(None)
    \/ ConnectSessionCreated
    \/ SessionVideoReady
    \/ SessionControlReady
    \/ ConnectWaitReady
    \/ ConnectStartThread
    \/ ConnectFirstFrame
    \/ ConnectFirstFrameTimeout
    \/ CmdDisconnect
    \/ DisconnectStopFlag
    \/ DisconnectJoin
    \/ DisconnectJoinTimeout
    \/ DisconnectSession
    \/ DisconnectClearFrame
    \/ DisconnectClearWidth
    \/ DisconnectClearHeight
    \/ \E t \in Threads : LoopCheck(t)
    \/ \E t \in Threads : PollNoFrame(t)
    \/ \E t \in Threads : PollFrame(t)
    \/ \E t \in Threads : OnFrameStore(t)
    \/ \E t \in Threads : OnFrameHeight(t)
    \/ \E t \in Threads : OnFrameWidth(t)
    \/ \E t \in Threads : DispatchCallback(t)
    \/ \E t \in Threads : DispatchDone(t)
    \/ AddFrameCallback
    \/ \E c \in CallbackIds : RemoveFrameCallback(c)

NextDispatch ==
    \/ DispatchSteps
    \/ \E t \in Threads : OnFrameBuffer(t, FALSE)

SpecDispatch == InitSession /\ [][NextDispatch]_vars

\* the same, keeping for each dispatch the history of the callbacks called
NextCallbacks ==
    \/ DispatchSteps
    \/ \E t \in Threads : OnFrameBuffer(t, TRUE)

SpecCallbacks == InitSession /\ [][NextCallbacks]_vars


(* -------------------------- input primitives --------------------------- *)

InputOps == {"tap", "long_press", "swipe", "scroll", "type_text", "key",
             "set_clipboard"}

\* "if self.control is None ...: return False": nothing is sent
Refused == [ret |-> FALSE, raised |-> FALSE, sent |-> 0, threw |-> FALSE]

\* n calls on self.control inside "try:", the throwAt-th of which raises
\* (none when throwAt is 0 or beyond n); "except Exception: return False"
TryCalls(n, throwAt) ==
    IF throwAt = 0 \/ throwAt > n
    THEN [ret |-> TRUE, raised |-> FALSE, sent |-> n, threw |-> FALSE]
    ELSE [ret |-> FALSE, raised |-> FALSE, sent |-> throwAt - 1, threw |-> TRUE]

\* ScrcpyClient.tap: f_touch(DOWN), f_touch(RELEASE)
TapResult(ctrl, w, throwAt) ==
    IF ~ctrl \/ w = 0 THEN Refused ELSE TryCalls(2, throwAt)

\* ScrcpyClient.long_press: f_touch(DOWN), sleep, f_touch(RELEASE)
LongPressResult(ctrl, w, throwAt) ==
    IF ~ctrl \/ w = 0 THEN Refused ELSE TryCalls(2, throwAt)

\* a swipe whose "duration_ms / 1000.0 / steps" stands before the "try:"
SwipeResultDivisionOutsideTry(ctrl, w, steps, throwAt) ==
    IF ~ctrl \/ w = 0 THEN Refused
    ELSE IF steps = 0
    THEN [ret |-> FALSE, raised |-> TRUE, sent |-> 0, threw |-> TRUE]
    ELSE TryCalls(steps + 2, throwAt)

\* ScrcpyClient.swipe: inside "try:", the division by steps (ZeroDivisionError
\* when steps is 0), f_touch(DOWN), steps times f_touch(MOVE), f_touch(RELEASE)
SwipeResult(ctrl, w, steps, throwAt) ==
    IF ~ctrl \/ w = 0 THEN Refused
    ELSE IF steps = 0
    THEN [ret |-> FALSE, raised |-> FALSE, sent |-> 0, threw |-> TRUE]
    ELSE TryCalls(steps + 2, throwAt)

\* ScrcpyClient.scroll: a swipe of 10 steps along v, else along h, else True
ScrollResult(ctrl, w, h, v, throwAt) ==
    IF ~ctrl \/ w = 0 THEN Refused
    ELSE IF v # 0 \/ h # 0 THEN SwipeResult(ctrl, w, ScrollSteps, throwAt)
    ELSE TryCalls(0, 0)

\* ScrcpyClient.type_text: f_text_paste(text, paste=True)
TypeTextResult(ctrl, throwAt) ==
    IF ~ctrl THEN Refused ELSE TryCalls(1, throwAt)

\* ScrcpyClient.key: "adb shell input keyevent" when device_id is set, else False
KeyResult(ctrl, dev, throwAt) ==
    IF ~ctrl THEN Refused
    ELSE IF dev # None THEN TryCalls(1, throwAt)
    ELSE Refused

\* ScrcpyClient.set_clipboard: f_text_paste(text, paste=paste)
SetClipboardResult(ctrl, throwAt) ==
    IF ~ctrl THEN Refused ELSE TryCalls(1, throwAt)

\* the primitive op called with the given arguments
InputResult(op, ctrl, steps, h, v, throwAt) ==
    CASE op = "tap" -> TapResult(ctrl, width, throwAt)
      [] op = "long_press" -> LongPressResult(ctrl, width, throwAt)
      [] op = "swipe" -> SwipeResult(ctrl, width, steps, throwAt)
      [] op = "scroll" -> ScrollResult(ctrl, width, h, v, throwAt)
      [] op = "type_text" -> TypeTextResult(ctrl, throwAt)
      [] op = "key" -> KeyResult(ctrl, deviceId, throwAt)
      [] op = "set_clipboard" -> SetClipboardResult(ctrl, throwAt)

\* the "control" property: self.session.ca, None without a session; with a
\* session the adapter is there (ca) or is not
ControlStates == IF session = None THEN {FALSE} ELSE BOOLEAN

\* one input primitive called by the command thread, with ctrl telling
\* whether self.control is an adapter
InputCall(op, ctrl, steps, h, v, throwAt) ==
    /\ mainPc = "idle"
    /\ LET r == InputResult(op, ctrl, steps, h, v, throwAt)
       IN lastIn' = [op |-> op, ret |-> r.ret, raised |-> r.raised,
                     sent |-> r.sent, control |-> ctrl, threw |-> r.threw,
                     connected0 |-> connected, session0 |-> session]
    /\ lastOp' = op
    /\ response' = ""
    /\ reqDev' = None
    /\ reqConn' = FALSE
    /\ reqFound' = "na"
    /\ waitOutcome' = "na"
    /\ UNCHANGED <<fbVars, clientVars, libVars, thVars, mainPc, mainRet>>
    /\ UNCHANGED frontVars
    /\ UNCHANGED serverVars

NextInput ==
    \/ nSessions < MaxConnectsIO /\ CmdConnect(None)
    \/ NextCore
    \/ \E op \in InputOps \ {"swipe", "scroll"}, ctrl \in ControlStates,
          throwAt \in 0..MaxThrowAt :
          InputCall(op, ctrl, 0, 0, 0, throwAt)
    \/ \E ctrl \in ControlStates, steps \in 0..MaxSteps,
          throwAt \in 0..MaxThrowAt :
          InputCall("swipe", ctrl, steps, 0, 0, throwAt)
    \/ \E ctrl \in ControlStates, hv \in {<<0, 0>>, <<0, 1>>, <<1, 0>>},
          throwAt \in 0..MaxThrowAt :
          InputCall("scroll", ctrl, 0, hv[1], hv[2], throwAt)

\* the client with the input primitives in use
SpecInput == InitSession /\ [][NextInput]_vars

(* ------------------- device_manager: DeviceRouter ---------------------- *)
\* An asyncio task runs without interruption up to its next suspended await
\* (run_in_executor in ScrcpyBackend, the adb subprocess in AdbBackend); one
\* action is one such run.

\* the call falls through to "await self.adb.<op>(...)"; fast tells whether
\* the fast backend was tried and raised
ToFallback(k, op, after, fast) ==
    /\ tPc' = [tPc EXCEPT ![k] = "fb_wait"]
    /\ tOp' = [tOp EXCEPT ![k] = op]
    /\ tAfter' = [tAfter EXCEPT ![k] = after]
    /\ tFast' = [tFast EXCEPT ![k] = fast]
    /\ tFb' = [tFb EXCEPT ![k] = @ + 1]
    /\ UNCHANGED lastRet

\* the call suspends in the backend's run_in_executor of the client's method
ToFastWait(k, op, after) ==
    /\ tPc' = [tPc EXCEPT ![k] = "fast_wait"]
    /\ tOp' = [tOp EXCEPT ![k] = op]
    /\ tAfter' = [tAfter EXCEPT ![k] = after]
    /\ UNCHANGED <<tFast, tFb, lastRet>>

\* the call returns (tag names the backend of the return statement, by the
\* backend that performed the operation, fast how the fast backend had
\* served it, req the device the call was given, dev the device the
\* operation was performed on) or raises exc to its caller
Finish(k, tag, by, exc, fast, req, dev) ==
    /\ tPc' = [tPc EXCEPT ![k] = "idle"]
    /\ tOp' = [tOp EXCEPT ![k] = NoCall]
    /\ tAfter' = [tAfter EXCEPT ![k] = FALSE]
    /\ tFast' = [tFast EXCEPT ![k] = "none"]
    /\ tFb' = [tFb EXCEPT ![k] = 0]
    /\ lastRet' = [tag |-> tag, by |-> by, exc |-> exc, fast |-> fast,
                    req |-> req, dev |-> dev]

\* the device a ScrcpyBackend method acts on: "await self.scrcpy.<op>(...)"
\* is called without the router's device argument, and the method works on
\* self._client
ScrcpyDevice(device, clientDevice) == clientDevice

\* AdbBackend._get_device: the device given, else the remembered default,
\* else the first device adb lists (None when it lists none)
AdbGetDevice(device, default, first) ==
    IF device # None THEN device
    ELSE IF default # None THEN default
    ELSE first

\* a router operation after _check_scrcpy_available has answered avail: the
\* fast backend's method up to its first suspension (get_screen_size answers
\* from _screen_size; "if not self._connected or not self._client: raise";
\* press_key raises ValueError on an unknown key), else the fallback
Serve(k, op, after, avail, conn, client, screen) ==
    IF ~avail THEN ToFallback(k, op, after, "none")
    ELSE IF op.name = "get_screen_size" /\ screen
    THEN Finish(k, "scrcpy", "scrcpy", "none", "performed", op.dev,
                ScrcpyDevice(op.dev, bDevice))
    ELSE IF ~conn \/ client = 0 THEN ToFallback(k, op, after, "raised")
    ELSE IF op.name = "press_key" /\ op.key = "unknown"
    THEN ToFallback(k, op, after, "raised")
    ELSE ToFastWait(k, op, after)

\* _check_scrcpy_available: "if self._scrcpy_available is None"
NeedsProbe(avail) == avail = "unknown"

\* a router operation is called: _check_scrcpy_available, then either the
\* probe suspends in ScrcpyClient.connect of a new client, or the operation
\* itself starts (ScrcpyBackend.connect answers True at once when the backend
\* is connected, and the flag is written). Tasks are interchangeable: the
\* call is given to the first idle one. ScrcpyClient.connect is called with
\* no device_id and takes first, the head of adb.device_list().
RouterCall(k, op, first) ==
    /\ tPc[k] = "idle"
    /\ \A j \in Tasks : j < k => tPc[j] # "idle"
    /\ nCalls < MaxCalls
    /\ nCalls' = nCalls + 1
    /\ IF NeedsProbe(rAvail)
       THEN IF bConnected /\ bClient # 0
            THEN /\ rAvail' = "available"
                 /\ flagWrites' = flagWrites + 1
                 /\ Serve(k, op, unavailSeen, TRUE, bConnected, bClient, bScreen)
                 /\ UNCHANGED <<bClient, bDevice, handshakes>>
            ELSE /\ bClient' = handshakes + 1
                 /\ bDevice' = first
                 /\ handshakes' = handshakes + 1
                 /\ tPc' = [tPc EXCEPT ![k] = "probing"]
                 /\ tOp' = [tOp EXCEPT ![k] = op]
                 /\ tAfter' = [tAfter EXCEPT ![k] = unavailSeen]
                 /\ UNCHANGED <<rAvail, flagWrites, tFast, tFb, lastRet>>
       ELSE /\ Serve(k, op, unavailSeen, rAvail = "available", bConnected,
                     bClient, bScreen)
            /\ UNCHANGED <<rAvail, flagWrites, bClient, bDevice, handshakes>>
    /\ UNCHANGED <<bConnected, bScreen, aDefault, unavailSeen>>
    /\ UNCHANGED <<fbVars, sessionVars, serverVars>>

\* the probe's ScrcpyClient.connect returned True: "self._connected = True",
\* and the backend suspends in get_resolution
ProbeConnected(k) ==
    /\ tPc[k] = "probing"
    /\ bConnected' = TRUE
    /\ tPc' = [tPc EXCEPT ![k] = "probe_res"]
    /\ UNCHANGED <<bClient, bScreen, handshakes, deviceVars, routerVars, tOp,
                   tAfter, tFast, tFb>>
    /\ UNCHANGED <<fbVars, sessionVars, serverVars>>

\* the probe's ScrcpyClient.connect returned False, or it (or the import)
\* raised: ScrcpyBackend.connect returns False, the flag is written, and the
\* operation goes to the fallback
ProbeFailed(k) ==
    /\ tPc[k] = "probing"
    /\ rAvail' = "unavailable"
    /\ flagWrites' = flagWrites + 1
    /\ unavailSeen' = TRUE
    /\ Serve(k, tOp[k], tAfter[k], FALSE, bConnected, bClient, bScreen)
    /\ UNCHANGED <<backendVars, deviceVars, nCalls>>
    /\ UNCHANGED <<fbVars, sessionVars, serverVars>>

\* get_resolution returned (a resolution or None): ScrcpyBackend.connect
\* returns True, the flag is written, and the operation starts
ProbeResolution(k, res) ==
    /\ tPc[k] = "probe_res"
    /\ bScreen' = (bScreen \/ res)
    /\ rAvail' = "available"
    /\ flagWrites' = flagWrites + 1
    /\ Serve(k, tOp[k], tAfter[k], TRUE, bConnected, bClient, bScreen \/ res)
    /\ UNCHANGED <<bClient, bConnected, handshakes, deviceVars, unavailSeen,
                   nCalls>>
    /\ UNCHANGED <<fbVars, sessionVars, serverVars>>

\* the ScrcpyBackend methods that await the client's method and drop what it
\* returns (ScrcpyClient's input primitives answer True or False)
UncheckedOps == {"tap", "swipe", "type_text", "press_key"}

\* whether the fast backend's method returns normally when the client's
\* method ended with outcome: "performed", "refused" (False, or no frame, or
\* no resolution) or "raised". screenshot and get_screen_size raise
\* RuntimeError on a missing frame or resolution.
FastReturns(name, outcome) ==
    \/ outcome = "performed"
    \/ outcome = "refused" /\ name \in UncheckedOps

\* a router that takes a failure of the fast backend as the end of it
FastFailureMarksUnavailable(avail) == "unavailable"

\* the flag after "except Exception as e: logger.warning(...)": the handler
\* of a failed fast operation only logs
AfterFastFailure(avail) == avail

\* the client's method has ended: the router returns with the fast backend's
\* tag, or catches the exception and goes to the fallback
FastDone(k, outcome) ==
    /\ tPc[k] = "fast_wait"
    /\ IF FastReturns(tOp[k].name, outcome)
       THEN Finish(k, "scrcpy",
                   IF outcome = "performed" THEN "scrcpy" ELSE "none",
                   "none", outcome, tOp[k].dev,
                   IF outcome = "performed"
                   THEN ScrcpyDevice(tOp[k].dev, bDevice) ELSE None)
       ELSE /\ ToFallback(k, tOp[k], tAfter[k], "raised")
            /\ rAvail' = AfterFastFailure(rAvail)
    /\ FastReturns(tOp[k].name, outcome) => rAvail' = rAvail
    /\ bScreen' = (bScreen \/ (tOp[k].name = "get_screen_size"
                               /\ outcome = "performed"))
    /\ UNCHANGED <<bClient, bConnected, handshakes, deviceVars, flagWrites,
                   unavailSeen, nCalls>>
    /\ UNCHANGED <<fbVars, sessionVars, serverVars>>

\* a router that reports the failure of both backends as an error of its own
FallbackRaiseWrapped(exc) == "router"

\* what reaches the caller when the fallback's method raises exc: the router
\* awaits self.adb.<op> outside any try
FallbackRaise(exc) == exc

\* the fallback's method has ended: the router returns with the fallback's
\* tag, or the method's exception goes up to the caller. The method began
\* with _get_device, which without a device and without a default asks adb
\* for its devices (first is the head of that list, None when it is empty)
\* and remembers the first one.
FallbackDone(k, raises, first) ==
    /\ tPc[k] = "fb_wait"
    /\ IF raises
       THEN Finish(k, "none", "none", FallbackRaise("adb"), tFast[k],
                   tOp[k].dev, None)
       ELSE Finish(k, "adb", "adb", "none", tFast[k], tOp[k].dev,
                   AdbGetDevice(tOp[k].dev, aDefault, first))
    /\ aDefault' = IF tOp[k].dev = None /\ aDefault = None
                   THEN first ELSE aDefault
    /\ UNCHANGED <<backendVars, bDevice, rAvail, flagWrites, unavailSeen,
                   nCalls>>
    /\ UNCHANGED <<fbVars, sessionVars, serverVars>>

NextRouter ==
    \/ \E k \in Tasks, op \in RouterCalls : RouterCall(k, op, 1)
    \/ \E k \in Tasks : ProbeConnected(k)
    \/ \E k \in Tasks : ProbeFailed(k)
    \/ \E k \in Tasks, res \in BOOLEAN : ProbeResolution(k, res)
    \/ \E k \in Tasks, outcome \in {"performed", "refused", "raised"} :
          FastDone(k, outcome)
    \/ \E k \in Tasks, raises \in BOOLEAN : FallbackDone(k, raises, 1)

\* the device manager serving tool calls, several of them at a time
SpecRouter == InitFB /\ [][NextRouter]_vars

\* the same calls with a device argument, on any list of attached devices
NextDevice ==
    \/ \E k \in Tasks, op \in DeviceCalls, first \in Devices :
          RouterCall(k, op, first)
    \/ \E k \in Tasks : ProbeConnected(k)
    \/ \E k \in Tasks : ProbeFailed(k)
    \/ \E k \in Tasks, res \in BOOLEAN : ProbeResolution(k, res)
    \/ \E k \in Tasks, outcome \in {"performed", "refused", "raised"} :
          FastDone(k, outcome)
    \/ \E k \in Tasks, raises \in BOOLEAN, first \in Devices \cup {None} :
          FallbackDone(k, raises, first)

\* the device manager serving tool calls that name a device
SpecDevice == InitFB /\ [][NextDevice]_vars

(* ------------- ScrcpyHelperServer.handle_command: parsing -------------- *)
\* A command line is a sequence of characters; the alphabet has letters of
\* both cases and two kinds of whitespace.

WS == {" ", "\n"}
Letters == {"a", "A", "b"}
Alphabet == Letters \cup WS
Lines == UNION {[1..n -> Alphabet] : n \in 0..MaxLineLen}
\* the names commands are registered under: one letter each
Names == {<<c>> : c \in Letters}

\* str.lower
Lower(str) == [i \in 1..Len(str) |-> IF str[i] = "A" THEN "a" ELSE str[i]]

\* str.lstrip, str.rstrip, str.strip
RECURSIVE LStrip(_)
LStrip(str) ==
    IF str # <<>> /\ str[1] \in WS THEN LStrip(Tail(str)) ELSE str

RECURSIVE RStrip(_)
RStrip(str) ==
    IF str # <<>> /\ str[Len(str)] \in WS
    THEN RStrip(SubSeq(str, 1, Len(str) - 1))
    ELSE str

Strip(str) == RStrip(LStrip(str))

\* the run of non-whitespace characters str begins with, and what follows it
RECURSIVE TakeWord(_)
TakeWord(str) ==
    IF str = <<>> \/ str[1] \in WS THEN <<>>
    ELSE <<str[1]>> \o TakeWord(Tail(str))

DropWord(str) == SubSeq(str, Len(TakeWord(str)) + 1, Len(str))

\* str.split(): the runs of non-whitespace characters, in order
RECURSIVE Split(_)
Split(str) ==
    LET t == LStrip(str)
    IN IF t = <<>> THEN <<>> ELSE <<TakeWord(t)>> \o Split(DropWord(t))

\* str.split(maxsplit=1): the first run and, when there is more, the rest
\* without its leading whitespace
SplitMax1(str) ==
    LET t == LStrip(str)
        rest == LStrip(DropWord(t))
    IN IF t = <<>> THEN <<>>
       ELSE IF rest = <<>> THEN <<TakeWord(t)>>
       ELSE <<TakeWord(t), rest>>

\* a registry keyed by the names as they are given
RegisterKeyAsGiven(name) == name

\* register_command: "self.commands[name.lower()] = handler"
RegisterKey(name) == Lower(name)

\* register_command(name, handler), the handler being known by that name
RegisterCommand(name) ==
    /\ ~hcDone
    /\ Cardinality(registered) < MaxRegistered
    /\ name \notin registered
    /\ registered' = registered \cup {name}
    /\ commands' = [key \in DOMAIN commands \cup {RegisterKey(name)} |->
                      IF key = RegisterKey(name) THEN name ELSE commands[key]]
    /\ UNCHANGED <<hcDone, hcLine, hcOut>>
    /\ UNCHANGED <<fbVars, sessionVars, frontVars, srvVars, daemonVars,
                 queryVars>>

\* handle_command up to the handler's call: strip; "ERROR: empty command";
\* split(maxsplit=1), lower, split; "ERROR: unknown command '<cmd>'"; or
\* handler(args)
HandleCommandResult(line, cmds) ==
    LET cl == Strip(line)
        parts == SplitMax1(cl)
        cmd == Lower(parts[1])
        args == IF Len(parts) > 1 THEN Split(parts[2]) ELSE <<>>
    IN IF cl = <<>>
       THEN [kind |-> "empty", cmd |-> <<>>, handler |-> <<>>, args |-> <<>>,
             calls |-> 0]
       ELSE IF cmd \notin DOMAIN cmds
       THEN [kind |-> "unknown", cmd |-> cmd, handler |-> <<>>,
             args |-> <<>>, calls |-> 0]
       ELSE [kind |-> "invoked", cmd |-> cmd, handler |-> cmds[cmd],
             args |-> args, calls |-> 1]

\* handle_command(command_line)
HandleCommand(line) ==
    /\ ~hcDone
    /\ hcDone' = TRUE
    /\ hcLine' = line
    /\ hcOut' = HandleCommandResult(line, commands)
    /\ UNCHANGED <<commands, registered>>
    /\ UNCHANGED <<fbVars, sessionVars, frontVars, srvVars, daemonVars,
                 queryVars>>

NextCommand ==
    \/ \E name \in Names : RegisterCommand(name)
    \/ \E line \in Lines : HandleCommand(line)

\* command lines handled against a registry of commands
SpecCommand == InitFB /\ [][NextCommand]_vars

(* ---------- ScrcpyHelperServer: command handlers and accept loop ------- *)
\* Here a request is a command name and its arguments, already split by
\* handle_command. An argument is a number ("5"), a word that is no number
\* ("x"), or a word a handler looks for.

Numeric(tok) == tok = "5"

\* the commands the handlers below are registered under; "" stands for a
\* blank line and "nosuch" for a name that is not registered
ServerCommands == {"status", "connect", "disconnect", "quit", "screenshot",
                   "frames", "tap", "longpress", "swipe", "scroll", "type",
                   "key", "rotate", "screen", "notifications", "settings",
                   "clipboard", "record"}

\* the words tried as arguments of each command
ArgTokens(cmd) ==
    CASE cmd \in {"tap", "connect", "longpress", "swipe", "scroll"} ->
            {"5", "x"}
      [] cmd = "key" -> {"back", "5", "x"}
      [] cmd = "screen" -> {"on", "off", "x"}
      [] cmd = "notifications" -> {"expand", "collapse", "x"}
      [] cmd = "screenshot" -> {"base64", "x"}
      [] cmd = "frames" -> {"diff", "stable", "info", "5", "x"}
      [] cmd = "clipboard" -> {"get", "set", "x"}
      [] cmd = "record" -> {"start", "stop", "status", "x"}
      [] OTHER -> {"x"}

\* the most arguments tried with each command: swipe takes up to five,
\* scroll four, frames three with its subcommand, and the commands that
\* take one at most are tried with one more
ArgLen(cmd) ==
    CASE cmd = "swipe" -> MaxArgs + 2
      [] cmd = "scroll" -> MaxArgs + 1
      [] cmd \in {"tap", "longpress", "connect", "clipboard"} -> MaxArgs
      [] cmd = "frames" -> 3
      [] OTHER -> MaxArgs - 1

Requests ==
    {[cmd |-> "", args |-> <<>>]} \cup
    UNION {UNION {{[cmd |-> c, args |-> a] : a \in [1..n -> ArgTokens(c)]} :
                  n \in 0..ArgLen(c)} : c \in ServerCommands \cup {"nosuch"}}

\* what a handler does: the text or the bytes it returns, or that it raises;
\* the call it made on the client; self.scrcpy.connected afterwards;
\* whether it cleared self.running; and what it did to the recorder's
\* recording flag
Reply(text, effect, up) ==
    [kind |-> "text", text |-> text, bytes |-> <<>>, effect |-> effect,
     up |-> up, quit |-> FALSE, raised |-> FALSE,
     rec |-> "keep"]
Binary(bytes, effect, up) ==
    [kind |-> "binary", text |-> Txt("", ""), bytes |-> bytes,
     effect |-> effect, up |-> up, quit |-> FALSE, raised |-> FALSE,
     rec |-> "keep"]
Raises(effect, up) ==
    [kind |-> "raise", text |-> Txt("boom", ""), bytes |-> <<>>,
     effect |-> effect, up |-> up, quit |-> FALSE, raised |-> TRUE,
     rec |-> "keep"]

Err(body) == Txt("ERROR:", body)
Ok == Txt("OK", "")
Json == Txt("{", "...}")

\* a handler that does not look at the session before it acts
NeverNotConnected(up) == FALSE

\* "if not server.scrcpy.connected: return 'ERROR: not connected'"
NotConnected(up) == ~up

\* _cmd_status, _cmd_disconnect, _cmd_quit
BuiltinResults(cmd, args, up) ==
    CASE cmd = "status" -> {Reply(Json, "none", up)}
      [] cmd = "disconnect" -> {Reply(Ok, "disconnect", FALSE)}
      [] cmd = "quit" ->
            {[Reply(Ok, "disconnect", FALSE) EXCEPT !.quit = TRUE]}

\* _cmd_connect: a max_fps that is no number is passed over and 60 is used;
\* scrcpy.connect drops the session it finds and succeeds or fails
ConnectResults(args, up) ==
    {Reply(Ok, "connect", TRUE), Reply(Err("connection failed"), "connect", FALSE)}

\* cmd_screenshot; blobs are the PNG encodings tried
ScreenshotResults(args, up, blobs) ==
    IF NotConnected(up) THEN {Reply(Err("not connected"), "none", up)}
    ELSE {Reply(Err("no frame available"), "none", up),
          Reply(Err("encode"), "none", up)}
         \cup (IF args # <<>> /\ args[1] = "base64"
               THEN {Reply(Txt("iVBORw0KGgo", "..."), "none", up)}
               ELSE {Binary(b, "none", up) : b \in blobs})

\* cmd_frames with cmd_frames_diff, cmd_frames_stable and cmd_frames_info
FramesResults(args, up) ==
    IF args = <<>> THEN {Reply(Err("usage: frames"), "none", up)}
    ELSE LET subargs == Tail(args)
         IN CASE args[1] = "diff" ->
                   IF Len(subargs) < 2
                   THEN {Reply(Err("usage: frames diff"), "none", up)}
                   ELSE IF ~Numeric(subargs[1]) \/ ~Numeric(subargs[2])
                   THEN {Reply(Err("timestamps must be floats"), "none", up)}
                   ELSE {Reply(Txt("true", ""), "none", up),
                         Reply(Txt("false", ""), "none", up)}
              [] args[1] = "stable" ->
                   {Reply(Ok, "wait_stable", up),
                    Reply(Txt("TIMEOUT", ""), "wait_stable", up)}
              [] args[1] = "info" -> {Reply(Json, "none", up)}
              [] OTHER -> {Reply(Err("unknown frames subcommand"), "none", up)}

\* cmd_tap
TapResults(args, up) ==
    IF Len(args) < 2 THEN {Reply(Err("usage: tap <x> <y>"), "none", up)}
    ELSE IF ~Numeric(args[1]) \/ ~Numeric(args[2])
    THEN {Reply(Err("coordinates must be integers"), "none", up)}
    ELSE IF NotConnected(up) THEN {Reply(Err("not connected"), "none", up)}
    ELSE {Reply(Ok, "tap", up), Reply(Err("tap failed"), "tap", up)}

\* cmd_longpress, cmd_swipe, cmd_scroll, cmd_type, cmd_key: the usage and
\* number checks, the session check, then the client's primitive, which
\* answers True or False
InputResults(cmd, args, up) ==
    LET need == CASE cmd \in {"swipe", "scroll"} -> 4
                  [] cmd = "longpress" -> 2
                  [] OTHER -> 1
        most == CASE cmd = "swipe" -> 5
                  [] cmd = "longpress" -> 3
                  [] cmd = "scroll" -> 4
                  [] OTHER -> 1
        numbers == CASE cmd = "type" -> TRUE
                     [] cmd = "key" -> args[1] = "back" \/ Numeric(args[1])
                     [] OTHER -> \A i \in 1..Len(args) :
                                     i <= most => Numeric(args[i])
        call == CASE cmd = "longpress" -> "long_press"
                  [] cmd = "type" -> "type_text"
                  [] OTHER -> cmd
    IN IF Len(args) < need THEN {Reply(Err("usage"), "none", up)}
       ELSE IF ~numbers THEN {Reply(Err("invalid arguments"), "none", up)}
       ELSE IF NotConnected(up)
       THEN {Reply(Err("not connected"), "none", up)}
       ELSE {Reply(Ok, call, up), Reply(Err("failed"), call, up)}

\* cmd_rotate, cmd_screen, cmd_notifications, cmd_settings
DeviceResults(cmd, args, up) ==
    LET modes == CASE cmd = "screen" -> {"on", "off"}
                   [] OTHER -> {"expand", "collapse"}
        call == CASE cmd = "screen" -> "set_screen_power"
                  [] cmd = "settings" -> "expand_settings"
                  [] cmd = "rotate" -> "rotate"
                  [] OTHER -> IF args # <<>> /\ args[1] = "collapse"
                              THEN "collapse_panels"
                              ELSE "expand_notifications"
    IN IF cmd \in {"rotate", "settings"}
       THEN IF NotConnected(up)
            THEN {Reply(Err("not connected"), "none", up)}
            ELSE {Reply(Ok, call, up), Reply(Err("failed"), call, up)}
       ELSE IF args = <<>> THEN {Reply(Err("usage"), "none", up)}
       ELSE IF NotConnected(up)
       THEN {Reply(Err("not connected"), "none", up)}
       ELSE IF args[1] \notin modes
       THEN {Reply(Err("use one of the modes"), "none", up)}
       ELSE {Reply(Ok, call, up), Reply(Err("control failed"), call, up)}

\* cmd_clipboard; "paste" is handled as "set" is
ClipboardResults(args, up) ==
    IF args = <<>> THEN {Reply(Err("usage: clipboard"), "none", up)}
    ELSE IF NotConnected(up) THEN {Reply(Err("not connected"), "none", up)}
    ELSE CASE args[1] = "get" ->
                {Reply(Txt("hello", ""), "get_clipboard", up),
                 Reply(Txt("", ""), "get_clipboard", up),
                 Reply(Err("clipboard get failed"), "get_clipboard", up)}
           [] args[1] = "set" ->
                IF Len(args) < 2
                THEN {Reply(Err("usage: clipboard set <text>"), "none", up)}
                ELSE {Reply(Ok, "set_clipboard", up),
                      Reply(Err("clipboard set failed"), "set_clipboard", up)}
           [] OTHER -> {Reply(Err("unknown clipboard command"), "none", up)}

\* cmd_record with VideoRecorder.start and VideoRecorder.stop; rec is the
\* recorder's recording flag. stop clears the flag and then saves: it gives
\* the path, or None when there is no frame or no encoder, and the making of
\* the directory and the writing of the images are outside any try
RecordResults(args, up, rec) ==
    IF args = <<>> THEN {Reply(Err("usage: record"), "none", up)}
    ELSE CASE args[1] = "start" ->
                IF NotConnected(up)
                THEN {Reply(Err("not connected"), "none", up)}
                ELSE IF rec
                THEN {Reply(Err("already recording"), "record_start", up)}
                ELSE {[Reply(Ok, "record_start", up) EXCEPT !.rec = "on"]}
           [] args[1] = "stop" ->
                IF ~rec
                THEN {Reply(Err("no recording or save failed"),
                            "record_stop", up)}
                ELSE {[r EXCEPT !.rec = "off"] : r \in
                        {Reply(Txt("tests/videos/", "recording.mp4"),
                               "record_stop", up),
                         Reply(Err("no recording or save failed"),
                               "record_stop", up),
                         Raises("record_stop", up)}}
           [] args[1] = "status" -> {Reply(Json, "none", up)}
           [] OTHER -> {Reply(Err("unknown record command"), "none", up)}

\* handler(args), for the handler registered under cmd
HandlerResults(cmd, args, up, rec, blobs) ==
    CASE cmd = "connect" -> ConnectResults(args, up)
      [] cmd = "screenshot" -> ScreenshotResults(args, up, blobs)
      [] cmd = "frames" -> FramesResults(args, up)
      [] cmd = "tap" -> TapResults(args, up)
      [] cmd \in {"longpress", "swipe", "scroll", "type", "key"} ->
            InputResults(cmd, args, up)
      [] cmd \in {"rotate", "screen", "notifications", "settings"} ->
            DeviceResults(cmd, args, up)
      [] cmd = "clipboard" -> ClipboardResults(args, up)
      [] cmd = "record" -> RecordResults(args, up, rec)
      [] OTHER -> BuiltinResults(cmd, args, up)

\* a handle_command that lets the handler's exception through
HandlerExceptionEscapes(res) == [res EXCEPT !.kind = "crash"]

\* handle_command: "except Exception as e: return False, f'ERROR: {e}\n'"
OnHandlerException(res) ==
    [res EXCEPT !.kind = "text", !.text = Err(res.text.lead)]

\* handle_command(command): the error texts of its own, or the handler's
\* result, a text (a newline is added to one that does not end with it) or
\* the bytes of a ("BINARY", bytes) pair
HandleCommandResults(req, up, rec, blobs) ==
    IF req.cmd = "" THEN {Reply(Err("empty command"), "none", up)}
    ELSE IF req.cmd \notin ServerCommands
    THEN {Reply(Err("unknown command"), "none", up)}
    ELSE {IF res.kind = "raise" THEN OnHandlerException(res) ELSE res :
              res \in HandlerResults(req.cmd, req.args, up, rec, blobs)}

\* whether the arguments are not what the command's usage line asks for, in
\* number or in being numbers
BadArgs(cmd, args) ==
    CASE cmd = "tap" ->
            Len(args) # 2 \/ ~Numeric(args[1]) \/ ~Numeric(args[2])
      [] cmd = "connect" ->
            Len(args) > 2 \/ (Len(args) = 2 /\ ~Numeric(args[2]))
      [] cmd = "screenshot" -> Len(args) > 1
      [] cmd = "frames" ->
            \/ args = <<>>
            \/ args[1] \notin {"diff", "stable", "info"}
            \/ /\ args[1] = "diff"
               /\ Len(args) # 3 \/ ~Numeric(args[2]) \/ ~Numeric(args[3])
            \/ /\ args[1] = "stable"
               /\ Len(args) > 2 \/ (Len(args) = 2 /\ ~Numeric(args[2]))
            \/ args[1] = "info" /\ Len(args) # 1
      [] cmd = "clipboard" ->
            \/ args = <<>>
            \/ args[1] \notin {"get", "set"}
            \/ args[1] = "get" /\ Len(args) # 1
            \/ args[1] = "set" /\ Len(args) < 2
      [] cmd = "record" ->
            \/ args = <<>>
            \/ args[1] \notin {"start", "stop", "status"}
            \/ args[1] \in {"start", "status"} /\ Len(args) # 1
            \/ args[1] = "stop" /\ Len(args) > 2
      [] cmd = "longpress" ->
            Len(args) \notin {2, 3} \/ \E i \in 1..Len(args) : ~Numeric(args[i])
      [] cmd = "swipe" ->
            Len(args) \notin {4, 5} \/ \E i \in 1..Len(args) : ~Numeric(args[i])
      [] cmd = "scroll" ->
            Len(args) # 4 \/ \E i \in 1..Len(args) : ~Numeric(args[i])
      [] cmd = "type" -> args = <<>>
      [] cmd = "key" ->
            Len(args) # 1 \/ ~(args[1] = "back" \/ Numeric(args[1]))
      [] cmd = "screen" -> Len(args) # 1 \/ args[1] \notin {"on", "off"}
      [] cmd = "notifications" ->
            Len(args) # 1 \/ args[1] \notin {"expand", "collapse"}
      [] cmd \in {"status", "disconnect", "quit", "rotate", "settings"} ->
            args # <<>>
      [] OTHER -> FALSE

\* struct.pack(">I", n) written least significant byte first
PackLE(n) == <<n % 256, (n \div 256) % 256, (n \div 65536) % 256,
               (n \div 16777216) % 256>>

\* struct.pack(">I", n): four bytes, most significant first
PackBE(n) == <<(n \div 16777216) % 256, (n \div 65536) % 256,
               (n \div 256) % 256, n % 256>>

\* the byte values results are made of, and the results sent
ByteSamples == {0, 10, 255}
SmallBlobs == {<<>>, <<10>>}
BigBlob == [i \in 1..BigPayload |-> (i + 9) % 256]
WireBlobs ==
    UNION {[1..n -> ByteSamples] : n \in 0..MaxBlobLen} \cup {BigBlob}

\* start(), up to its loop
ServerStart ==
    /\ srvPc = "start"
    /\ srvPc' = "accept"
    /\ srvRunning' = TRUE
    /\ UNCHANGED <<nConns, nRaised, clientUp, recording, lastConn, payload,
                   wire>>
    /\ UNCHANGED <<fbVars, sessionVars, frontVars, parseVars, daemonVars,
                 queryVars>>

\* one turn of the accept loop with a client that sends a command line:
\* accept, then handle_client: recv, handle_command, sendall (the length in
\* four bytes and the bytes, or the text), close. A peer that has gone makes
\* sendall raise, which handle_client logs; so it does when the handler's
\* exception reaches it
ServeConnection(req, out, peerOpen) ==
    /\ srvPc = "accept"
    /\ srvRunning
    /\ nConns < MaxConns
    /\ nConns' = nConns + 1
    /\ LET sent == peerOpen /\ out.kind # "crash"
       IN /\ nRaised' = nRaised + (IF out.raised THEN 1 ELSE 0)
          /\ lastConn' = [cmd |-> req.cmd,
                          sub |-> IF req.args = <<>> THEN ""
                                  ELSE req.args[1],
                          bad |-> BadArgs(req.cmd, req.args),
                          up |-> clientUp,
                          changed |-> (out.up # clientUp \/ out.rec # "keep"),
                          raised |-> out.raised,
                          kind |-> IF out.kind = "crash" THEN "none"
                                   ELSE out.kind,
                          text |-> out.text, effect |-> out.effect,
                          peerOpen |-> peerOpen, sent |-> sent,
                          closed |-> TRUE]
          /\ payload' = out.bytes
          /\ wire' = IF sent /\ out.kind = "binary"
                     THEN PackBE(Len(out.bytes)) \o out.bytes
                     ELSE <<>>
    /\ clientUp' = out.up
    /\ recording' = (IF out.rec = "keep" THEN recording ELSE out.rec = "on")
    /\ srvRunning' = (srvRunning /\ ~out.quit)
    /\ UNCHANGED srvPc
    /\ UNCHANGED <<fbVars, sessionVars, frontVars, parseVars, daemonVars,
                 queryVars>>

\* one turn of the accept loop with a client that closes without sending:
\* recv returns nothing, nothing is handled or sent, the socket is closed
ServeNoData ==
    /\ srvPc = "accept"
    /\ srvRunning
    /\ nConns < MaxConns
    /\ nConns' = nConns + 1
    /\ lastConn' = [NoConn EXCEPT !.closed = TRUE]
    /\ payload' = <<>>
    /\ wire' = <<>>
    /\ UNCHANGED <<srvPc, srvRunning, nRaised, clientUp, recording>>
    /\ UNCHANGED <<fbVars, sessionVars, frontVars, parseVars, daemonVars,
                 queryVars>>

\* "while self.running" fails: start() leaves its loop and calls stop()
ServerLoopExit ==
    /\ srvPc = "accept"
    /\ ~srvRunning
    /\ srvPc' = "stopped"
    /\ clientUp' = FALSE
    /\ UNCHANGED <<srvRunning, nConns, nRaised, recording, lastConn, payload,
                   wire>>
    /\ UNCHANGED <<fbVars, sessionVars, frontVars, parseVars, daemonVars,
                 queryVars>>

NextServer ==
    \/ ServerStart
    \/ \E req \in Requests, peerOpen \in BOOLEAN :
           \E out \in HandleCommandResults(req, clientUp, recording, SmallBlobs) :
               ServeConnection(req, out, peerOpen)
    \/ ServeNoData
    \/ ServerLoopExit

\* the command server answering requests one connection after another
SpecServer == InitFB /\ [][NextServer]_vars

\* a device is connected and screenshots of many sizes are asked for
WireRequests == {[cmd |-> "connect", args |-> <<>>],
                 [cmd |-> "screenshot", args |-> <<>>]}

NextWire ==
    \/ ServerStart
    \/ \E req \in WireRequests, peerOpen \in BOOLEAN :
           \E out \in HandleCommandResults(req, clientUp, recording, WireBlobs) :
               ServeConnection(req, out, peerOpen)

\* the command server sending binary results
SpecWire == InitFB /\ [][NextWire]_vars

(* ------------- ScrcpyHelperServer: start(), the loop, stop() ----------- *)
\* Several instances are started on one socket path. dPc says where each
\* is: "init", "probe" (cleanup_socket found a file and connects to it),
\* "stale" (the connect was refused; the file is to be unlinked), "bind",
\* "listen" (bound, before listen()), "accept" (in the loop), "recv" (in
\* handle_client, waiting for the client's line), "stop" (in stop(), before
\* the listening socket is closed), "unlink" (before the file is removed),
\* "stopped", and, when start() raised, "failed_running" or "failed_error".

\* the instances whose listening socket takes connections
Listening(i) == dPc[i] \in {"accept", "recv", "stop"}

\* an environment step: a process that died left its socket file behind
DeadProcessLeavesFile ==
    /\ sockFile = 0
    /\ \A i \in Instances : dPc[i] = "init"
    /\ sockFile' = DeadProcess
    /\ UNCHANGED <<dPc, dRunning, dSession, dLast>>
    /\ UNCHANGED <<fbVars, sessionVars, frontVars, parseVars, srvVars,
                 queryVars>>

\* cleanup_socket: "if socket_file.exists()"
DaemonCheckFile(i) ==
    /\ dPc[i] = "init"
    /\ dPc' = [dPc EXCEPT ![i] = IF sockFile = 0 THEN "bind" ELSE "probe"]
    /\ UNCHANGED <<sockFile, dRunning, dSession, dLast>>
    /\ UNCHANGED <<fbVars, sessionVars, frontVars, parseVars, srvVars,
                 queryVars>>

\* a cleanup_socket that takes every file for a stale one
ProbeAlwaysStale(live) == "stale"

\* cleanup_socket: a connect that succeeds raises RuntimeError("Server
\* already running"), one that is refused makes the file a stale one
ProbeOutcome(live) == IF live THEN "failed_running" ELSE "stale"

\* cleanup_socket: test_socket.connect(self.socket_path); with no file left
\* at the path the connect raises FileNotFoundError, which nothing catches
DaemonProbe(i) ==
    /\ dPc[i] = "probe"
    /\ dPc' = [dPc EXCEPT ![i] =
                 IF sockFile = 0 THEN "failed_error"
                 ELSE ProbeOutcome(sockFile \in Instances
                                   /\ Listening(sockFile))]
    /\ UNCHANGED <<sockFile, dRunning, dSession, dLast>>
    /\ UNCHANGED <<fbVars, sessionVars, frontVars, parseVars, srvVars,
                 queryVars>>

\* cleanup_socket: socket_file.unlink() removes the file that is at the path
\* now, and raises when there is none
DaemonUnlinkStale(i) ==
    /\ dPc[i] = "stale"
    /\ dPc' = [dPc EXCEPT ![i] = IF sockFile = 0 THEN "failed_error"
                                 ELSE "bind"]
    /\ sockFile' = 0
    /\ UNCHANGED <<dRunning, dSession, dLast>>
    /\ UNCHANGED <<fbVars, sessionVars, frontVars, parseVars, srvVars,
                 queryVars>>

\* start: server_socket.bind(self.socket_path) makes the file, and raises
\* when there is one
DaemonBind(i) ==
    /\ dPc[i] = "bind"
    /\ dPc' = [dPc EXCEPT ![i] = IF sockFile = 0 THEN "listen"
                                 ELSE "failed_error"]
    /\ sockFile' = (IF sockFile = 0 THEN i ELSE sockFile)
    /\ UNCHANGED <<dRunning, dSession, dLast>>
    /\ UNCHANGED <<fbVars, sessionVars, frontVars, parseVars, srvVars,
                 queryVars>>

\* start: listen(5), settimeout(1.0), self.running = True
DaemonListen(i) ==
    /\ dPc[i] = "listen"
    /\ dPc' = [dPc EXCEPT ![i] = "accept"]
    /\ dRunning' = [dRunning EXCEPT ![i] = TRUE]
    /\ UNCHANGED <<sockFile, dSession, dLast>>
    /\ UNCHANGED <<fbVars, sessionVars, frontVars, parseVars, srvVars,
                 queryVars>>

\* a loop that does not look at the flag
LoopIgnoresFlag(flag) == TRUE

\* start: "while self.running"
LoopContinues(flag) == flag

\* the clients that connect: one sends "quit", one sends "connect", one
\* sends nothing and keeps its connection open
ClientKinds == {"quit", "connect", "silent"}

\* one turn of the loop: accept() gives a connection (clients reach the
\* instance whose file is at the path) and handle_client reads the line,
\* answers and closes; with a silent client it stays in recv, the accepted
\* socket having no timeout
DaemonAccept(i, kind, out) ==
    /\ dPc[i] = "accept"
    /\ LoopContinues(dRunning[i])
    /\ sockFile = i
    /\ IF kind = "silent"
       THEN /\ dPc' = [dPc EXCEPT ![i] = "recv"]
            /\ UNCHANGED <<dRunning, dSession, dLast>>
       ELSE /\ out \in HandleCommandResults([cmd |-> kind, args |-> <<>>],
                                            dSession[i], FALSE, {})
            /\ dSession' = [dSession EXCEPT ![i] = out.up]
            /\ dRunning' = [dRunning EXCEPT ![i] = @ /\ ~out.quit]
            /\ dLast' = [dLast EXCEPT ![i] = out.text]
            /\ UNCHANGED dPc
    /\ UNCHANGED sockFile
    /\ UNCHANGED <<fbVars, sessionVars, frontVars, parseVars, srvVars,
                 queryVars>>

\* start: the loop's test fails and the finally clause calls stop()
DaemonLoopExit(i) ==
    /\ dPc[i] = "accept"
    /\ ~LoopContinues(dRunning[i])
    /\ dPc' = [dPc EXCEPT ![i] = "stop"]
    /\ UNCHANGED <<sockFile, dRunning, dSession, dLast>>
    /\ UNCHANGED <<fbVars, sessionVars, frontVars, parseVars, srvVars,
                 queryVars>>

\* stop: self.running = False, scrcpy.disconnect(), server_socket.close()
DaemonStopClose(i) ==
    /\ dPc[i] = "stop"
    /\ dPc' = [dPc EXCEPT ![i] = "unlink"]
    /\ dRunning' = [dRunning EXCEPT ![i] = FALSE]
    /\ dSession' = [dSession EXCEPT ![i] = FALSE]
    /\ UNCHANGED <<sockFile, dLast>>
    /\ UNCHANGED <<fbVars, sessionVars, frontVars, parseVars, srvVars,
                 queryVars>>

\* stop: "if socket_file.exists(): socket_file.unlink()", whoever made it
DaemonStopUnlink(i) ==
    /\ dPc[i] = "unlink"
    /\ dPc' = [dPc EXCEPT ![i] = "stopped"]
    /\ sockFile' = 0
    /\ UNCHANGED <<dRunning, dSession, dLast>>
    /\ UNCHANGED <<fbVars, sessionVars, frontVars, parseVars, srvVars,
                 queryVars>>

\* what an instance does by itself
DaemonStep(i) ==
    \/ DaemonCheckFile(i)
    \/ DaemonProbe(i)
    \/ DaemonUnlinkStale(i)
    \/ DaemonBind(i)
    \/ DaemonListen(i)
    \/ DaemonLoopExit(i)
    \/ DaemonStopClose(i)
    \/ DaemonStopUnlink(i)

NextDaemon ==
    \/ DeadProcessLeavesFile
    \/ \E i \in Instances : DaemonCheckFile(i)
    \/ \E i \in Instances : DaemonProbe(i)
    \/ \E i \in Instances : DaemonUnlinkStale(i)
    \/ \E i \in Instances : DaemonBind(i)
    \/ \E i \in Instances : DaemonListen(i)
    \/ \E i \in Instances, kind \in ClientKinds :
           \E out \in IF kind = "silent" THEN {Ok}
                      ELSE HandleCommandResults([cmd |-> kind, args |-> <<>>],
                                                dSession[i], FALSE, {}) :
               DaemonAccept(i, kind, out)
    \/ \E i \in Instances : DaemonLoopExit(i)
    \/ \E i \in Instances : DaemonStopClose(i)
    \/ \E i \in Instances : DaemonStopUnlink(i)

\* the daemons started on one path, each thread of control going on as long
\* as it has a step to take; clients come as they please
SpecDaemon ==
    /\ InitFB
    /\ [][NextDaemon]_vars
    /\ \A i \in Instances : WF_vars(DaemonStep(i))

(* ------------- FrameBuffer: is_stable, frames_differ, get_around --------- *)

\* A frame is one row of pixels: its width (frame.shape), its pixels, and
\* whether PIL's Image.fromarray takes it.
Frame(w, px, img) == [w |-> w, px |-> px, img |-> img]
Black == Frame(1, <<0>>, TRUE)
White == Frame(1, <<PixelMax>>, TRUE)
\* as Black, of a dtype Image.fromarray rejects
Odd == Frame(1, <<0>>, FALSE)
Wide == Frame(Scale + 1, [i \in 1..(Scale + 1) |-> 0], TRUE)
\* as Wide but for one pixel that the downsampling skips
Spot == Frame(Scale + 1, [i \in 1..(Scale + 1) |-> IF i = 2 THEN PixelMax ELSE 0],
              TRUE)
FrameSamples == {Black, White, Odd, Wide, Spot}

\* threshold: a float, here the fraction num/den
Thresholds == {[num |-> n, den |-> ThresholdDen] : n \in 0..MaxThresholdNum}
\* samples: up to one more than the deque can hold
SampleCounts == 0..(MaxFrames + 1)
AroundCounts == 0..MaxAround

Abs(x) == IF x < 0 THEN 0 - x ELSE x
Min2(a, b) == IF a < b THEN a ELSE b
Max2(a, b) == IF a > b THEN a ELSE b

RECURSIVE SumSeq(_)
SumSeq(q) == IF q = <<>> THEN 0 ELSE Head(q) + SumSeq(Tail(q))

\* imagehash.phash(img): HashBits bits that depend on the picture alone; a
\* bit is set where the pixel it looks at is light
PHash(f) == {i \in 1..HashBits : f.px[((i - 1) % f.w) + 1] * 2 > PixelMax}

\* FrameBuffer._compute_hash: None without imagehash or when the conversion
\* raises
ComputeHash(f, has) ==
    IF ~has THEN [ok |-> FALSE, bits |-> {}]
    ELSE IF ~f.img THEN [ok |-> FALSE, bits |-> {}]
    ELSE [ok |-> TRUE, bits |-> PHash(f)]

\* hash1 - hash2: the number of bits in which two hashes differ
HashDistance(h1, h2) == Cardinality((h1 \ h2) \cup (h2 \ h1))

\* frame[::scale]: the pixels at 0, scale, 2*scale, ...
Downsample(px) ==
    [k \in 1..(((Len(px) - 1) \div Scale) + 1) |-> px[(k - 1) * Scale + 1]]

\* "similarity < threshold" for the similarity 1 - diff/full, diff and full
\* whole numbers: (full - diff)/full < num/den
SimilarityBelow(diff, full, thr) == (full - diff) * thr.den < thr.num * full

\* FrameBuffer.frames_differ
FramesDiffer(f1, f2, thr, has) ==
    LET h1 == ComputeHash(f1, has)
        h2 == ComputeHash(f2, has)
    IN  IF has /\ h1.ok /\ h2.ok
        THEN SimilarityBelow(HashDistance(h1.bits, h2.bits), HashBits, thr)
        ELSE IF f1.w # f2.w THEN TRUE
        ELSE LET s1 == Downsample(f1.px)
                 s2 == Downsample(f2.px)
                 \* np.mean(np.abs(small1 - small2)) = total / Len(s1)
                 total == SumSeq([k \in 1..Len(s1) |-> Abs(s1[k] - s2[k])])
             IN  SimilarityBelow(total, PixelMax * Len(s1), thr)

\* list(q)[-n:]: the last n entries for n > 0, the whole list for n = 0
\* (-0 is 0), all but the first -n for n < 0
LastN(q, n) ==
    IF n = 0 THEN q
    ELSE IF n > 0 THEN SubSeq(q, Max2(1, Len(q) - n + 1), Len(q))
    ELSE SubSeq(q, (0 - n) + 1, Len(q))

\* is_stable: "if len(self.frames) < samples: return False"
NeverTooFew(n, samples) == FALSE
TooFewFrames(n, samples) == n < samples

\* is_stable, the loop over consecutive frames of recent
AnyPairDiffers(recent, thr, has) ==
    \E i \in 1..(Len(recent) - 1) :
        FramesDiffer(recent[i].frame, recent[i + 1].frame, thr, has)

\* FrameBuffer.is_stable
IsStable(q, thr, samples, has) ==
    IF TooFewFrames(Len(q), samples) THEN FALSE
    ELSE ~AnyPairDiffers(LastN(q, samples), thr, has)

\* get_around, the search: closest_idx = 0, min_diff = inf, and every frame
\* strictly nearer than the best so far replaces it (indices from 0)
RECURSIVE ClosestFrom(_, _, _, _, _, _)
ClosestFrom(q, t, i, closestIdx, minDiff, isInf) ==
    IF i >= Len(q) THEN closestIdx
    ELSE LET diff == Abs(q[i + 1].ts - t)
         IN  IF isInf \/ diff < minDiff
             THEN ClosestFrom(q, t, i + 1, i, diff, FALSE)
             ELSE ClosestFrom(q, t, i + 1, closestIdx, minDiff, isInf)
ClosestIdx(q, t) == ClosestFrom(q, t, 0, 0, 0, TRUE)

\* get_around: "start = max(0, closest_idx - before)"
AroundStart(closestIdx, before) == Max2(0, closestIdx - before)
\* get_around: "end = min(len(frames), closest_idx + after + 1)"
AroundEndShort(n, closestIdx, after) == Min2(n, closestIdx + after)
AroundEnd(n, closestIdx, after) == Min2(n, closestIdx + after + 1)

\* FrameBuffer.get_around: frames[start:end], copies of the entries
GetAround(q, t, before, after) ==
    IF q = <<>> THEN <<>>
    ELSE LET c == ClosestIdx(q, t)
         IN  SubSeq(q, AroundStart(c, before) + 1, AroundEnd(Len(q), c, after))

\* add_frame(frame) from the one thread that feeds the buffer, the clock read
\* for the timestamp, or add_frame(frame, timestamp)
QueryAddFrame(ts, f) ==
    /\ nextId <= MaxAdds
    /\ frames' = AddFrameLocked(frames, ts, f, now)
    /\ overflowed' = (overflowed \/ (MaxFrames > 0 /\ Len(frames) >= MaxFrames))
    /\ lastAddedTs' = ts
    /\ nextId' = nextId + 1
    /\ qOut' = NoQuery
    /\ UNCHANGED <<now, apiPc, apiTs, hasHash, thSeen, wait, vrec>>
    /\ UNCHANGED <<sessionVars, frontVars, parseVars, srvVars, daemonVars>>

\* a call of is_stable(threshold, samples). It reads the buffer and changes
\* nothing, so one call is followed per buffer state.
IsStableCall(thr, samples) ==
    /\ qOut = NoQuery
    /\ qOut' = [op |-> "is_stable", buf |-> frames, thr |-> thr,
                samples |-> samples,
                ret |-> IsStable(frames, thr, samples, hasHash)]
    /\ UNCHANGED <<fbVars, hasHash, thSeen, wait, vrec>>
    /\ UNCHANGED <<sessionVars, frontVars, parseVars, srvVars, daemonVars>>

\* a call of frames_differ(frame1, frame2, threshold)
FramesDifferCall(f1, f2, thr) ==
    /\ qOut' = [op |-> "frames_differ", buf |-> frames, thr |-> thr,
                f1 |-> f1, f2 |-> f2,
                hashed |-> (hasHash /\ f1.img /\ f2.img),
                ret |-> FramesDiffer(f1, f2, thr, hasHash)]
    /\ UNCHANGED <<fbVars, hasHash, thSeen, wait, vrec>>
    /\ UNCHANGED <<sessionVars, frontVars, parseVars, srvVars, daemonVars>>

\* a call of get_around(timestamp, before, after). It reads the buffer and
\* changes nothing, so one call is followed per buffer state.
GetAroundCall(t, before, after) ==
    /\ qOut = NoQuery
    /\ qOut' = [op |-> "get_around", buf |-> frames, ts |-> t,
                before |-> before, after |-> after,
                ret |-> GetAround(frames, t, before, after)]
    /\ UNCHANGED <<fbVars, hasHash, thSeen, wait, vrec>>
    /\ UNCHANGED <<sessionVars, frontVars, parseVars, srvVars, daemonVars>>

\* FrameBuffer.get_recent: list(self.frames)[-n:], each frame copied
GetRecent(q, n) == LastN(q, n)

\* a call of get_recent(n). It reads the buffer and changes nothing, so one
\* call is followed per buffer state.
GetRecentCall(n) ==
    /\ qOut = NoQuery
    /\ qOut' = [op |-> "get_recent", buf |-> frames, n |-> n,
                ret |-> GetRecent(frames, n)]
    /\ UNCHANGED <<fbVars, hasHash, thSeen, wait, vrec>>
    /\ UNCHANGED <<sessionVars, frontVars, parseVars, srvVars, daemonVars>>

InitStable ==
    /\ InitBuffer
    /\ InitClient
    /\ InitFront
    /\ InitServer
    /\ \E has \in BOOLEAN : InitQueries(has)
    /\ available = TRUE

\* frames of every kind arrive within one reading of the clock
NextStable ==
    \/ \E f \in FrameSamples : QueryAddFrame(now, f)
    \/ \E thr \in Thresholds, samples \in SampleCounts : IsStableCall(thr, samples)

SpecStable == InitStable /\ [][NextStable]_vars

\* frames_differ called on two frames of any kind, whatever the buffer holds
NextDiffer ==
    \E f1, f2 \in FrameSamples, thr \in Thresholds : FramesDifferCall(f1, f2, thr)

SpecDiffer == InitStable /\ [][NextDiffer]_vars

\* frames arrive with timestamps of the caller's choosing, in any order
NextAround ==
    \/ \E ts \in Times : QueryAddFrame(ts, Black)
    \/ \E t \in Times, before \in AroundCounts, after \in AroundCounts :
           GetAroundCall(t, before, after)
    \/ \E n \in SampleCounts : GetRecentCall(n)

SpecAround == InitFB /\ [][NextAround]_vars

(* ----------------------- FrameBuffer.wait_stable ------------------------ *)
\* The clock (now) counts milliseconds here. The waiting thread's own steps
\* take no time; time passes while it sleeps.

\* wait_stable's "threshold: float = 0.98"
DefaultThreshold == [num |-> 98, den |-> 100]
\* the timeouts a caller gives, in milliseconds; None when it gives none
GivenTimeouts == {k * (CheckIntervalMs \div 2) : k \in 0..MaxTimeoutHalves}
\* max_seconds in milliseconds
MaxAgeMs == MaxSeconds * 1000

\* cmd_frames_stable: "timeout = 5.0" unless args[0] parses, then
\* float(args[0]) / 1000.0 seconds, which is args[0] milliseconds
TimeoutOf(arg) == IF arg = None THEN DefaultTimeoutMs ELSE arg

\* _cleanup_old with the clock and max_seconds in milliseconds
RECURSIVE CleanupOlderThan(_, _, _)
CleanupOlderThan(q, clock, maxAge) ==
    IF q # <<>> /\ q[1].ts < clock - maxAge
    THEN CleanupOlderThan(Tail(q), clock, maxAge)
    ELSE q

\* add_frame(frame) from the frame thread, under the buffer's lock. Frames
\* that arrive during the call are followed for the timeouts a caller gives.
WaitAddFrame(f) ==
    /\ nextId <= MaxAdds
    /\ wait.lock = "free"
    /\ wait.pc # "done"
    /\ wait.pc = "idle" \/ wait.timeout < DefaultTimeoutMs
    /\ frames' = CleanupOlderThan(DequeAppend(frames, [ts |-> now, frame |-> f]),
                                  now, MaxAgeMs)
    /\ overflowed' = (overflowed \/ (MaxFrames > 0 /\ Len(frames) >= MaxFrames))
    /\ lastAddedTs' = now
    /\ nextId' = nextId + 1
    /\ wait' = [wait EXCEPT !.added = @ \/ wait.pc # "idle"]
    /\ UNCHANGED <<now, apiPc, apiTs, hasHash, thSeen, qOut, vrec>>
    /\ UNCHANGED <<sessionVars, frontVars, parseVars, srvVars, daemonVars>>

\* wait_stable(timeout, threshold, check_interval): "start = time.time()"
WaitStableCall(arg, interval) ==
    /\ wait.pc = "idle"
    /\ wait' = [wait EXCEPT !.pc = "test", !.start = now,
                            !.timeout = TimeoutOf(arg), !.interval = interval,
                            !.stableAtCall = IsStable(frames, DefaultThreshold,
                                                      DefaultSamples, hasHash)]
    /\ UNCHANGED <<fbVars, hasHash, thSeen, qOut, vrec>>
    /\ UNCHANGED <<sessionVars, frontVars, parseVars, srvVars, daemonVars>>

\* "while time.time() - start < timeout", else "return False"
WaitTest ==
    /\ wait.pc = "test"
    /\ wait' = IF now - wait.start < wait.timeout
               THEN [wait EXCEPT !.pc = "lock"]
               ELSE [wait EXCEPT !.pc = "done", !.ret = FALSE, !.end = now]
    /\ UNCHANGED <<fbVars, hasHash, thSeen, qOut, vrec>>
    /\ UNCHANGED <<sessionVars, frontVars, parseVars, srvVars, daemonVars>>

\* is_stable: "with self.lock:"
WaitLock ==
    /\ wait.pc = "lock"
    /\ wait.lock = "free"
    /\ wait' = [wait EXCEPT !.pc = "snapshot", !.lock = "waiter"]
    /\ UNCHANGED <<fbVars, hasHash, thSeen, qOut, vrec>>
    /\ UNCHANGED <<sessionVars, frontVars, parseVars, srvVars, daemonVars>>

\* time.sleep(check_interval) ends check_interval after it began
WakeLate(t, interval) == t + interval + interval
WakeTime(t, interval) == t + interval

\* who holds the buffer's lock once is_stable has left its with block
LockKeptWhileComparing == "waiter"
LockAfterSnapshot == "free"

\* is_stable under the lock: too few frames is False at once; else the last
\* samples frames are taken and the lock is left
WaitSnapshot ==
    /\ wait.pc = "snapshot"
    /\ wait' = IF TooFewFrames(Len(frames), DefaultSamples)
               THEN [wait EXCEPT !.pc = "sleep", !.lock = "free",
                                 !.polls = @ + 1,
                                 !.wake = WakeTime(now, wait.interval)]
               ELSE [wait EXCEPT !.pc = "compare", !.lock = LockAfterSnapshot,
                                 !.recent = LastN(frames, DefaultSamples)]
    /\ UNCHANGED <<fbVars, hasHash, thSeen, qOut, vrec>>
    /\ UNCHANGED <<sessionVars, frontVars, parseVars, srvVars, daemonVars>>

\* is_stable, the comparisons; then "return True" or time.sleep
WaitCompare ==
    /\ wait.pc = "compare"
    /\ wait' = IF ~AnyPairDiffers(wait.recent, DefaultThreshold, hasHash)
               THEN [wait EXCEPT !.pc = "done", !.ret = TRUE, !.end = now,
                                 !.polls = @ + 1, !.polledTrue = TRUE,
                                 !.lock = "free", !.recent = <<>>]
               ELSE [wait EXCEPT !.pc = "sleep", !.polls = @ + 1,
                                 !.lock = "free", !.recent = <<>>,
                                 !.wake = WakeTime(now, wait.interval)]
    /\ UNCHANGED <<fbVars, hasHash, thSeen, qOut, vrec>>
    /\ UNCHANGED <<sessionVars, frontVars, parseVars, srvVars, daemonVars>>

\* time.sleep returns
WaitSleepDone ==
    /\ wait.pc = "sleep"
    /\ now' = wait.wake
    /\ wait' = [wait EXCEPT !.pc = "test", !.sleeps = @ + 1]
    /\ UNCHANGED <<frames, apiPc, apiTs, nextId, overflowed, lastAddedTs>>
    /\ UNCHANGED <<hasHash, thSeen, qOut, vrec>>
    /\ UNCHANGED <<sessionVars, frontVars, parseVars, srvVars, daemonVars>>

\* what the waiting thread does by itself
WaitStep ==
    \/ WaitTest
    \/ WaitLock
    \/ WaitSnapshot
    \/ WaitCompare
    \/ WaitSleepDone

NextWait ==
    \/ \E f \in {Black, White} : WaitAddFrame(f)
    \/ \E arg \in GivenTimeouts \cup {None} : WaitStableCall(arg, CheckIntervalMs)
    \/ WaitStep

\* the thread in wait_stable is scheduled again and again
SpecWait == InitFB /\ [][NextWait]_vars /\ WF_vars(WaitStep)

(* ---------------------------- VideoRecorder ----------------------------- *)
\* vrec.frames holds, for each accumulated frame, the number of recordings
\* started when the frame was handed to add_frame; vrec.starts numbers the
\* recordings.

\* add_frame: "if not self.recording: return", read without the lock
RecAddFrameCheck ==
    /\ vrec.fPc = "idle"
    /\ vrec.delivered < MaxDelivered
    /\ vrec' = IF vrec.recording
               THEN [vrec EXCEPT !.delivered = @ + 1, !.fPc = "checked",
                                 !.fTag = vrec.starts]
               ELSE [vrec EXCEPT !.delivered = @ + 1]
    /\ UNCHANGED <<fbVars, hasHash, thSeen, qOut, wait>>
    /\ UNCHANGED <<sessionVars, frontVars, parseVars, srvVars, daemonVars>>

\* add_frame: "with self.lock:"
RecAddFrameLock ==
    /\ vrec.fPc = "checked"
    /\ vrec.lock = "free"
    /\ vrec' = [vrec EXCEPT !.fPc = "locked", !.lock = "frame"]
    /\ UNCHANGED <<fbVars, hasHash, thSeen, qOut, wait>>
    /\ UNCHANGED <<sessionVars, frontVars, parseVars, srvVars, daemonVars>>

\* add_frame: "self.frames.append((timestamp, frame.copy()))"
RecAddFrameAppend ==
    /\ vrec.fPc = "locked"
    /\ vrec' = [vrec EXCEPT !.fPc = "idle", !.lock = "free",
                            !.frames = Append(@, vrec.fTag)]
    /\ UNCHANGED <<fbVars, hasHash, thSeen, qOut, wait>>
    /\ UNCHANGED <<sessionVars, frontVars, parseVars, srvVars, daemonVars>>

\* start or stop called by the command thread: "with self.lock:"
RecEnter(op) ==
    /\ vrec.cPc = "idle"
    /\ vrec.calls < MaxRecCalls
    /\ vrec.lock = "free"
    /\ vrec' = [vrec EXCEPT !.cPc = op, !.lock = "cmd", !.calls = @ + 1]
    /\ UNCHANGED <<fbVars, hasHash, thSeen, qOut, wait>>
    /\ UNCHANGED <<sessionVars, frontVars, parseVars, srvVars, daemonVars>>

\* start under the lock
RecStartBody ==
    /\ vrec.cPc = "start"
    /\ vrec' = IF vrec.recording
               THEN [vrec EXCEPT !.cPc = "idle", !.lock = "free",
                                 !.ret = "False"]
               ELSE [vrec EXCEPT !.cPc = "idle", !.lock = "free",
                                 !.frames = <<>>, !.recording = TRUE,
                                 !.starts = @ + 1, !.ret = "True"]
    /\ UNCHANGED <<fbVars, hasHash, thSeen, qOut, wait>>
    /\ UNCHANGED <<sessionVars, frontVars, parseVars, srvVars, daemonVars>>

\* who holds the recorder's lock once stop has left its with block
LockKeptWhileEncoding == "cmd"
LockAfterStopCopy == "free"

\* stop under the lock: "if not self.recording: return None"; else the flag
\* is cleared, the frames copied and the list emptied; "if not frames:
\* return None"
RecStopBody ==
    /\ vrec.cPc = "stop"
    /\ vrec' = IF ~vrec.recording
               THEN [vrec EXCEPT !.cPc = "idle", !.lock = "free",
                                 !.ret = "None"]
               ELSE IF vrec.frames = <<>>
               THEN [vrec EXCEPT !.cPc = "idle", !.lock = "free",
                                 !.recording = FALSE, !.local = <<>>,
                                 !.stopped = vrec.starts, !.ret = "None"]
               ELSE [vrec EXCEPT !.cPc = "encode", !.lock = LockAfterStopCopy,
                                 !.recording = FALSE, !.local = vrec.frames,
                                 !.frames = <<>>, !.stopped = vrec.starts]
    /\ UNCHANGED <<fbVars, hasHash, thSeen, qOut, wait>>
    /\ UNCHANGED <<sessionVars, frontVars, parseVars, srvVars, daemonVars>>

\* stop, after the lock: mkdir, ffmpeg or the image sequence; a path, None,
\* or an exception from mkdir
RecEncode(outcome) ==
    /\ vrec.cPc = "encode"
    /\ vrec' = [vrec EXCEPT !.cPc = "idle", !.lock = "free", !.ret = outcome]
    /\ UNCHANGED <<fbVars, hasHash, thSeen, qOut, wait>>
    /\ UNCHANGED <<sessionVars, frontVars, parseVars, srvVars, daemonVars>>

NextRecorder ==
    \/ RecAddFrameCheck
    \/ RecAddFrameLock
    \/ RecAddFrameAppend
    \/ \E op \in {"start", "stop"} : RecEnter(op)
    \/ RecStartBody
    \/ RecStopBody
    \/ \E outcome \in {"path", "None", "raised"} : RecEncode(outcome)

\* the recorder fed by the frame thread and driven by the command thread
SpecRecorder == InitFB /\ [][NextRecorder]_vars

\* The command thread is in one handler at a time: a behaviour follows a
\* wait_stable call or the recorder's calls.
NextLocks ==
    \/ vrec = NoRec /\ NextWait
    \/ wait = NoWait /\ frames = <<>> /\ NextRecorder

SpecLocks == InitFB /\ [][NextLocks]_vars

(* ======================= claims: FrameBuffer ========================== *)

\* C1: after any sequence of add_frame calls, from any number of threads and
\* with any timestamps, the buffer never holds more than max_frames frames;
\* a full buffer drops its oldest frame, so what is retained is always the
\* most recently appended run of frames (add_frame has no failing path).
C1_NeverExceedsMaxFrames ==
    /\ Len(frames) <= MaxFrames
    /\ \A i \in 1..Len(frames) : frames[i].frame = nextId - Len(frames) + i - 1

\* C1 witness: an append on a full buffer has dropped the oldest frame and
\* the buffer is full again, every caller having returned.
C1_Witness ==
    /\ overflowed
    /\ Len(frames) = MaxFrames
    /\ frames[1].frame > 1
    /\ \A t \in Callers : apiPc[t] = "idle"

\* C2 (as claimed): once add_frame has returned, no retained frame is older
\* than max_seconds relative to the timestamp of the most recently added
\* frame.
C2_NoFrameOlderThanLastAdded ==
    lastAddedTs # None =>
        \A i \in 1..Len(frames) : frames[i].ts >= lastAddedTs - MaxSeconds

\* C3 (as claimed): the stored timestamps are non-decreasing in storage
\* order in every reachable buffer state.
C3_TimestampsNonDecreasing ==
    \A i \in 1..Len(frames) : \A j \in i..Len(frames) : frames[i].ts <= frames[j].ts

(* ======================= claims: ScrcpyClient ========================= *)

\* the command thread has returned from op and handles no other command yet
Returned(op) == mainPc = "idle" /\ lastOp = op

\* C4 (as claimed): whenever the session is connected, a first frame of the
\* current session has arrived and the resolution is known.
C4_ConnectedImpliesFrameAndResolution ==
    connected => (lastFrame # None /\ lastFrame = session
                  /\ width > 0 /\ height > 0)

\* C5: a connect command naming a device that adb does not enumerate answers
\* "ERROR: connection failed" and leaves status reporting connected = false,
\* whatever the session was before, connected to another device included.
C5_UnknownDeviceFailsDisconnected ==
    (Returned("connect") /\ reqFound = "missing") =>
        (response = ErrConnect /\ ~Status.connected)

\* C5 witness: the session was connected when connect was called with a
\* serial that is not enumerated, and the call has returned.
C5_Witness ==
    /\ Returned("connect")
    /\ reqFound = "missing"
    /\ reqConn
    /\ response = ErrConnect

\* C6 (as claimed): connect succeeds only if video and control both became
\* ready within the ready-wait; when the wait timed out, connect fails and
\* the session is left disconnected.
C6_SuccessOnlyIfBothChannelsReady ==
    /\ (Returned("connect") /\ response = "OK") => waitOutcome = "ready"
    /\ (Returned("connect") /\ waitOutcome = "timeout") =>
           (response = ErrConnect /\ ~connected /\ session = None)

\* C7 (as claimed): after any disconnect() the session is not connected and
\* has no session object, no last frame, no cached resolution and a cleared
\* running flag (so that a second call finds and leaves that same state).
C7_DisconnectLeavesClearedState ==
    Returned("disconnect") =>
        /\ ~connected
        /\ session = None
        /\ frameThread = None
        /\ ~running
        /\ lastFrame = None
        /\ width = 0
        /\ height = 0

\* C8 (as claimed): once disconnect() has returned and until a later connect,
\* no frame thread is delivering a frame into the session: none is about to
\* store last_frame, the resolution or a buffer entry, and last_frame and the
\* resolution stay cleared.
C8_NoDispatchAfterDisconnect ==
    Returned("disconnect") =>
        /\ \A t \in Threads :
              thPc[t] \notin {"f_last", "f_dims", "f_width", "f_buf"}
        /\ \A t \in Threads : thPc[t] = "f_cb" => thIdx[t] >= Len(callbacks)
        /\ lastFrame = None /\ width = 0 /\ height = 0

C10_InputPrimitivesReturnFalseNeverRaise ==
    lastIn.op # "none" =>
        /\ ~lastIn.raised
        /\ ~lastIn.control => (~lastIn.ret /\ lastIn.sent = 0)
        /\ lastIn.threw => ~lastIn.ret
        /\ connected = lastIn.connected0
        /\ session = lastIn.session0

\* C10 witness: swipe was called on a connected session with steps = 0 (the
\* division threw before anything was sent) and returned False.
C10_Witness ==
    /\ lastIn.op = "swipe"
    /\ lastIn.control
    /\ lastIn.threw
    /\ lastIn.sent = 0
    /\ ~lastIn.ret
    /\ connected

(* ======================= claims: DeviceRouter ========================= *)

\* C11 (as claimed): for any interleaving of router calls the fast backend's
\* connect handshake is attempted at most once, and the availability flag is
\* written at most once (it leaves "unknown" once and is not written again).
C11_ProbedAtMostOnce ==
    /\ handshakes <= 1
    /\ flagWrites <= 1

\* C12 (as claimed): once a probe has returned unavailable, no call begun
\* afterwards attempts a connect or an operation on the fast backend: every
\* such call is served by the fallback.
C12_UnavailableMeansFallbackForever ==
    \A k \in Tasks :
        tAfter[k] => /\ tPc[k] \notin {"probing", "probe_res", "fast_wait"}
                     /\ tFast[k] = "none"

C14_FallbackExceptionPropagates ==
    [][\A k \in Tasks :
         (tPc[k] = "fb_wait" /\ tPc'[k] = "idle" /\ lastRet'.tag = "none") =>
             /\ lastRet'.exc = "adb"
             /\ lastRet'.by = "none"
             /\ rAvail' = rAvail
             /\ flagWrites' = flagWrites
             /\ <<bClient, bConnected, bScreen, handshakes>>' =
                    <<bClient, bConnected, bScreen, handshakes>>]_vars

\* C14 witness: a call failed on the fast backend and then on the fallback,
\* and the flag still says available.
C14_Witness ==
    /\ lastRet.exc = "adb"
    /\ lastRet.fast = "raised"
    /\ lastRet.tag = "none"
    /\ rAvail = "available"

\* C15 (as claimed): a result tagged with the fast backend was performed by
\* the fast backend.
C15_FastTagMeansPerformedByFast ==
    lastRet.tag = "scrcpy" => lastRet.by = "scrcpy"

(* ==================== claims: ScrcpyHelperServer ====================== *)

\* the characters of str that are not whitespace, in order
RECURSIVE NonWs(_)
NonWs(str) ==
    IF str = <<>> THEN <<>>
    ELSE (IF str[1] \in WS THEN <<>> ELSE <<str[1]>>) \o NonWs(Tail(str))

\* the concatenation of the words of a list
RECURSIVE Concat(_)
Concat(words) ==
    IF words = <<>> THEN <<>> ELSE words[1] \o Concat(Tail(words))

\* the positions of str where a run of non-whitespace characters begins
WordStarts(str) ==
    {i \in 1..Len(str) : str[i] \notin WS /\ (i = 1 \/ str[i - 1] \in WS)}

C17_HandlerExceptionAnswered ==
    lastConn.raised =>
        /\ lastConn.kind = "text"
        /\ lastConn.text.lead = "ERROR:"
        /\ lastConn.peerOpen => lastConn.sent
        /\ lastConn.closed
        /\ srvPc = "accept"
        /\ srvRunning
        /\ nConns < MaxConns => ENABLED ServeNoData

\* C17 witness: a handler raised on an earlier connection and the connection
\* after it was served and answered.
C17_Witness ==
    /\ nRaised = 1
    /\ nConns >= 2
    /\ ~lastConn.raised
    /\ lastConn.cmd = "rotate"
    /\ lastConn.sent
    /\ lastConn.text = Ok

\* what a client makes of four length bytes, most significant first
UnpackBE(b) == b[1] * 16777216 + b[2] * 65536 + b[3] * 256 + b[4]

\* C18: the bytes sent for a binary result are four bytes that read, most
\* significant first, as the number L of bytes of the result, followed by
\* exactly those L bytes, unchanged, and nothing after them.
C18_BinaryFraming ==
    (lastConn.kind = "binary" /\ lastConn.sent) =>
        /\ Len(wire) >= 4
        /\ LET L == UnpackBE(SubSeq(wire, 1, 4))
           IN /\ L = Len(payload)
              /\ Len(wire) = 4 + L
              /\ SubSeq(wire, 5, 4 + L) = payload

\* C18 witness: a binary result of 64 KB or more was sent.
C18_Witness ==
    /\ lastConn.kind = "binary"
    /\ lastConn.sent
    /\ Len(payload) >= 65536
    /\ Len(wire) = Len(payload) + 4

\* C19: every text answer sent begins with "ERROR:", or is "OK", or is a
\* JSON blob.
C19_TextFollowsConvention ==
    (lastConn.kind = "text" /\ lastConn.sent) =>
        \/ lastConn.text.lead = "ERROR:"
        \/ lastConn.text = Ok
        \/ lastConn.text.lead = "{"

\* C20: a command whose arguments are wrong in number, or are no numbers
\* where numbers are asked for, is answered (its peer still being there)
\* with a text beginning with "ERROR:" and makes no call on the client, the buffer or the recorder.
C20_BadArgumentsRejected ==
    (lastConn.bad /\ lastConn.peerOpen) =>
        /\ lastConn.kind = "text"
        /\ lastConn.text.lead = "ERROR:"
        /\ lastConn.effect = "none"

\* the commands that act on the device or start the recorder
NeedsSession(cmd, sub) ==
    \/ cmd \in {"tap", "longpress", "swipe", "scroll", "type", "key",
                "rotate", "screen", "notifications", "settings", "clipboard",
                "screenshot"}
    \/ cmd = "record" /\ sub = "start"

\* C21: a command that acts on the device, takes a screenshot or starts the
\* recorder, given well-formed arguments while the session is not connected,
\* is answered "ERROR: not connected", makes no call on the client or the
\* recorder and leaves the connected and recording flags as they were.
C21_NotConnectedRefused ==
    (/\ NeedsSession(lastConn.cmd, lastConn.sub)
     /\ ~lastConn.bad
     /\ ~lastConn.up) =>
        /\ lastConn.kind = "text"
        /\ lastConn.text = Err("not connected")
        /\ lastConn.effect = "none"
        /\ ~lastConn.changed
        /\ ~clientUp

\* C21 witness: after a session was connected and disconnected again, a swipe
\* with four numbers is refused.
C21_Witness ==
    /\ nConns = 3
    /\ lastConn.cmd = "swipe"
    /\ ~lastConn.bad
    /\ ~lastConn.up
    /\ lastConn.text = Err("not connected")
    /\ lastConn.sent

(* ================== claims: the daemon on its socket path ============= *)

\* quit has been handled by instance i: its loop is about to test a cleared
\* self.running
QuitHandled(i) == dPc[i] = "accept" /\ ~dRunning[i]

\* C22: once an instance has handled quit, its session is disconnected and
\* its client was answered "OK"; it takes no further connection; and it
\* goes on to the stopped state, its listening socket closed and no socket
\* file of its making left at the path.
C22_QuitStopsServer ==
    /\ [](\A i \in Instances :
             QuitHandled(i) => (dLast[i] = Ok /\ ~dSession[i]))
    /\ [][\A i \in Instances :
             QuitHandled(i) =>
                 (dPc'[i] \in {"accept", "stop"} /\ dLast'[i] = dLast[i])]_vars
    /\ \A i \in Instances :
           QuitHandled(i) ~>
               (dPc[i] = "stopped" /\ ~Listening(i) /\ sockFile # i)

\* C22 witness: an instance that answered "OK" to quit has stopped and the
\* path holds no file.
C22_Witness ==
    \E i \in Instances :
        /\ dPc[i] = "stopped"
        /\ dLast[i] = Ok
        /\ ~dRunning[i]
        /\ sockFile = 0

\* C23: an instance whose probe of an existing socket file was refused goes
\* on to remove the file, bind the path and listen.
C23_StaleFileStartupSucceeds ==
    \A i \in Instances : (dPc[i] = "stale") ~> (dPc[i] = "accept")

\* C24: an instance whose probe connects to a live instance fails to start
\* with the already-running error: the step leaves the socket file as it is,
\* and the instance binds nothing and goes nowhere from there.
C24_LiveInstanceRefusesSecond ==
    [][\A i \in Instances :
          /\ (/\ dPc[i] = "probe"
              /\ dPc'[i] # "probe"
              /\ sockFile \in Instances
              /\ Listening(sockFile)) =>
                 (dPc'[i] = "failed_running" /\ sockFile' = sockFile)
          /\ dPc[i] = "failed_running" =>
                 (dPc'[i] = "failed_running" /\ sockFile' # i)]_vars

\* C24 witness: the second instance failed to start as already running while
\* the first is in its accept loop with its file at the path.
C24_Witness ==
    /\ dPc[2] = "failed_running"
    /\ dPc[1] = "accept"
    /\ dRunning[1]
    /\ sockFile = 1

\* C25: at most one instance has a listening socket open on the path.
C25_OneDaemonPerPath ==
    Cardinality({i \in Instances : Listening(i)}) <= 1

\* C26: an instance waiting in recv for a client's line always leaves it.
C26_NeverBlocksIndefinitely ==
    \A i \in Instances : (dPc[i] = "recv") ~> (dPc[i] # "recv")

(* ================== claims: FrameBuffer queries ======================= *)

\* C27: is_stable(threshold, samples) returns False in every buffer state
\* that holds fewer than samples frames, whatever the threshold.
C27_TooFewFramesUnstable ==
    (qOut.op = "is_stable" /\ Len(qOut.buf) < qOut.samples) => qOut.ret = FALSE

\* C27 witness: is_stable has answered on two buffered frames that are the
\* same picture, asked for three samples at threshold 0, and said False.
C27_Witness ==
    /\ qOut.op = "is_stable"
    /\ Len(qOut.buf) = 2
    /\ qOut.buf[1].frame = qOut.buf[2].frame
    /\ qOut.samples = 3
    /\ qOut.thr.num = 0
    /\ qOut.ret = FALSE

\* C28: with at least samples frames buffered, is_stable returns True exactly
\* when no two consecutive frames among the last samples frames differ under
\* frames_differ; older frames have no say; for every samples >= 0.
C28_StableIffLastSamplesAgree ==
    (qOut.op = "is_stable" /\ qOut.samples >= 0 /\ Len(qOut.buf) >= qOut.samples) =>
        LET n == Len(qOut.buf)
            first == n - qOut.samples + 1
        IN  qOut.ret =
                (\A i \in first..(n - 1) :
                     ~FramesDiffer(qOut.buf[i].frame, qOut.buf[i + 1].frame,
                                   qOut.thr, hasHash))

\* C29: frames_differ(f, f, threshold) is False for every frame f and every
\* threshold above 0, with the hashes compared and with the pixels compared.
C29_FrameNeverDiffersFromItself ==
    (qOut.op = "frames_differ" /\ qOut.f1 = qOut.f2 /\ qOut.thr.num > 0) =>
        qOut.ret = FALSE

\* C30: get_around(timestamp, before, after) returns the empty list exactly
\* when the buffer is empty; otherwise some buffered frame nearest in time to
\* timestamp is the anchor and the result is, in storage order, the run of up
\* to before frames just ahead of it, the anchor, and up to after frames just
\* behind it, cut short only by the ends of the buffer; with before = after
\* = 0 the result is the one nearest frame.
C30_GetAroundWindow ==
    qOut.op = "get_around" =>
        LET n == Len(qOut.buf)
            Nearest(k) == \A j \in 1..n : Abs(qOut.buf[k].ts - qOut.ts)
                                            <= Abs(qOut.buf[j].ts - qOut.ts)
        IN  /\ (qOut.ret = <<>>) <=> (n = 0)
            /\ n > 0 =>
                 \E k \in 1..n :
                     /\ Nearest(k)
                     /\ qOut.ret = SubSeq(qOut.buf,
                                          k - Min2(qOut.before, k - 1),
                                          k + Min2(qOut.after, n - k))
            /\ (n > 0 /\ qOut.before = 0 /\ qOut.after = 0) =>
                 \E k \in 1..n : Nearest(k) /\ qOut.ret = <<qOut.buf[k]>>

\* C30 witness: get_around has answered on three frames stored out of time
\* order, the last of them at the asked timestamp, with one frame wanted on
\* either side: the frame before the anchor and the anchor come back.
C30_Witness ==
    /\ qOut.op = "get_around"
    /\ Len(qOut.buf) = 3
    /\ qOut.buf[1].ts > qOut.buf[2].ts
    /\ qOut.buf[3].ts = qOut.ts
    /\ qOut.buf[1].ts # qOut.ts
    /\ qOut.buf[2].ts # qOut.ts
    /\ qOut.before = 1
    /\ qOut.after = 1
    /\ qOut.ret = <<qOut.buf[2], qOut.buf[3]>>

\* C31: get_recent(n) returns exactly the last min(n, count) buffered frames,
\* oldest first, for every n >= 0; get_recent(0) returns no frame.
C31_GetRecentLastN ==
    (qOut.op = "get_recent" /\ qOut.n >= 0) =>
        LET count == Len(qOut.buf)
            k == Min2(qOut.n, count)
        IN  qOut.ret = SubSeq(qOut.buf, count - k + 1, count)

C33_StableBufferReturnsAtOnce ==
    (wait.pc = "done" /\ wait.stableAtCall /\ ~wait.added) =>
        (wait.ret /\ wait.sleeps = 0 /\ wait.polls = 1)

(* ====================== claims: VideoRecorder, locks ================== *)

\* C34: the recorder's frame list is empty whenever it is not recording;
\* start on a running recording returns False and keeps the frames; stop
\* when not recording returns None; no recording holds a frame handed to
\* add_frame before that recording was started.
C34_FramesOnlyInsideRecording ==
    /\ ~vrec.recording => vrec.frames = <<>>
    /\ \A i \in 1..Len(vrec.frames) : vrec.frames[i] >= vrec.starts
    /\ \A i \in 1..Len(vrec.local) : vrec.local[i] >= vrec.stopped

\* C35: every write of the session's last frame and frame counter is made by
\* a thread that holds the client's lock, connect and disconnect included.
C35_SharedStateUnderLock ==
    [][(lastFrame' # lastFrame \/ frameCount' # frameCount) =>
          (lockHolder' \in Threads /\ thPc'[lockHolder'] # thPc[lockHolder'])]_vars

\* C36: no lock is held across a blocking step: the buffer's lock is free
\* while wait_stable sleeps or compares frames, and the recorder's lock is
\* not the command thread's while stop encodes.
C36_NoLockAcrossBlocking ==
    /\ wait.pc \in {"sleep", "compare"} => wait.lock = "free"
    /\ vrec.cPc = "encode" => vrec.lock # "cmd"

\* C36 witness: stop is encoding while the frame thread is inside add_frame
\* with the recorder's lock.
C36_Witness ==
    /\ vrec.cPc = "encode"
    /\ vrec.fPc = "locked"
    /\ vrec.lock = "frame"

(* ================= claims: the session's frame threads ================ *)

\* C37: once a later connect has started its own frame-polling loop, a loop
\* started by an earlier connect neither passes its loop test again nor
\* takes a frame from the device.
C37_OneActivePollingLoop ==
    [][\A t \in Threads :
          (frameThread \in Threads /\ t # frameThread) =>
              ~(thPc'[t] # thPc[t] /\ thPc'[t] \in {"poll", "f_last"})]_vars

(* ================ claims: one request per connection ================== *)

\* the received text up to its first newline (all of it when it has none)
RECURSIVE UpToNewline(_)
UpToNewline(str) ==
    IF str = <<>> \/ Head(str) = "\n" THEN <<>>
    ELSE <<Head(str)>> \o UpToNewline(Tail(str))

\* C38: only the text up to the first newline received decides the command
\* and its arguments: what follows that newline in the same read is neither
\* run as a command nor given to the first one as arguments.
C38_OnlyFirstLineDispatched ==
    hcDone => hcOut = HandleCommandResult(UpToNewline(hcLine), commands)

(* ================= claims: dispatch to the callbacks ================== *)

\* how many times c occurs in the sequence q
Count(c, q) == Cardinality({i \in 1..Len(q) : q[i] = c})

\* C39: a callback that stays registered from the start of a frame's dispatch
\* to its end is called with that frame exactly once, whatever other
\* callbacks are added or removed meanwhile.
C39_RegisteredCallbackCalledOnce ==
    [][\A t \in Threads :
          (thPc[t] = "f_cb" /\ thPc'[t] # "f_cb" /\ thSeen[t].on) =>
              \A c \in thSeen[t].kept : Count(c, thSeen[t].got) = 1]_vars


\* C40 (as claimed): a router operation that was given a device id and was
\* performed, by either backend, was performed on that device; an operation
\* goes to the first listed device only when it was given no device id.
C40_ExplicitDeviceServed ==
    (lastRet.by # "none" /\ lastRet.req # None) => lastRet.dev = lastRet.req

====
